---- MODULE Spec2Model ----
(***************************************************************************)
(* Query-routing workflow engine of the manufacturing AI assistant:        *)
(*   - detect_tool_request        (app/services/tools/detect.py)           *)
(*   - GeminiProvider.generate    (app/services/llm/gemini.py)             *)
(*   - async_execute_tool         (app/services/tools/registry.py)         *)
(*   - LangGraphService           (app/services/langgraph_service.py)      *)
(*   - websocket_chat             (app/api/v1/chat.py)                     *)
(*   - chat histories  (app/services/chat_service.py, app/repositories)    *)
(*                                                                         *)
(* A Python str is a sequence of tokens.  A token is one character, or an  *)
(* opaque chunk "<...>" standing for a literal piece of a fixed message    *)
(* (Japanese text without leading or trailing whitespace, which strip(),   *)
(* lower() and the substring tests of the code treat as ordinary           *)
(* characters).  A character outside ASCII is written "U+xxxx".            *)
(***************************************************************************)
EXTENDS Integers, Sequences, FiniteSets, TLC

VARIABLES
    op,          \* which entry point this behaviour exercises
    d_text,      \* detect_tool_request: argument of the direct call
    d_result,    \* detect_tool_request: <<tool, arg>> returned by the direct call
    settings,    \* Settings fields read by the provider and the engine
    provider,    \* the LLMProvider the service holds (GeminiProvider or a stub)
    registry,    \* keys present in agents.registry._REGISTRY_V2
    g,           \* one GeminiProvider.generate call: locals and position
    wf,          \* one process_query call: position, node log, return value
    st,          \* the WorkflowState threaded through the graph nodes
    last_debug_info, \* LangGraphService._last_debug_info: <<>> is None, <<d>> the dict d
    tool_call,   \* one direct async_execute_tool call: arguments, position, ToolResult
    route_call,  \* one direct routing decision: the state routed and the node chosen
    stream,      \* one stream_events call: position and the event last yielded
    debug_call,  \* one direct _build_debug_info call: the state and the summary
    checkpoint,  \* MemorySaver: the state saved under the thread id, <<>> if none
    parked,      \* the other process_query call in flight at an await, <<>> if none
    observed,    \* what the callers of process_query saw, in order of return
    ws,          \* one websocket_chat connection: position, stream tasks, frames sent
    hist,        \* a chat history store: sessions, clock, the last operation
    now          \* seconds elapsed since the entry point was called

\* the variables of the direct calls, and those of a sequence of calls on one
\* service
direct == <<tool_call, route_call, stream, debug_call>>

session == <<checkpoint, parked, observed>>

\* the variables of the chat layer above the engine
chat == <<ws, hist>>

vars == <<op, d_text, d_result, settings, provider, registry, g, wf, st,
          last_debug_info, tool_call, route_call, stream, debug_call, checkpoint,
          parked, observed, ws, hist, now>>

----------------------------------------------------------------------------
(* Bounds of the model *)

\* longest query, in segments of Segments, handed to detect_tool_request
MaxSegs == 3

\* longest decision_trace handed to a direct _build_debug_info call
MaxTrace == 2

\* events the execution engine hands to one stream_events call
MaxEvents == 2

\* calls of process_query one engine serves in a session
MaxCalls == 2

\* turns of a conversation served one after another
MaxTurns == 2

\* largest gemini_max_retries explored for a direct generate call
MaxRetriesBound == 3

----------------------------------------------------------------------------
(* Python str primitives *)

None == <<"<None>">>

Truthy(s) == s # None /\ s # <<>>

WhiteSpace == {" ", "\t", "\n"}

UpperCase == <<"A","B","C","D","E","F","G","H","I","J","K","L","M",
               "N","O","P","Q","R","S","T","U","V","W","X","Y","Z">>

LowerCase == <<"a","b","c","d","e","f","g","h","i","j","k","l","m",
               "n","o","p","q","r","s","t","u","v","w","x","y","z">>

LowerChar(c) ==
    IF \E i \in 1..Len(UpperCase) : UpperCase[i] = c
    THEN LowerCase[CHOOSE i \in 1..Len(UpperCase) : UpperCase[i] = c]
    ELSE c

\* str.lower()
Lower(s) == [i \in 1..Len(s) |-> LowerChar(s[i])]

RECURSIVE LStrip(_)
LStrip(s) == IF s # <<>> /\ Head(s) \in WhiteSpace THEN LStrip(Tail(s)) ELSE s

RECURSIVE RStrip(_)
RStrip(s) ==
    IF s # <<>> /\ s[Len(s)] \in WhiteSpace
    THEN RStrip(SubSeq(s, 1, Len(s) - 1))
    ELSE s

\* str.strip()
Strip(s) == RStrip(LStrip(s))

\* str.startswith(p)
StartsWith(s, p) == Len(s) >= Len(p) /\ SubSeq(s, 1, Len(p)) = p

\* s[k:]
SliceFrom(s, k) == SubSeq(s, k + 1, Len(s))

\* p in s
Contains(s, p) ==
    \E i \in 0..(Len(s) - Len(p)) : SubSeq(s, i + 1, i + Len(p)) = p

RECURSIVE Digits(_)
Digits(n) ==
    LET d == <<"0","1","2","3","4","5","6","7","8","9">>[(n % 10) + 1]
    IN  IF n < 10 THEN <<d>> ELSE Digits(n \div 10) \o <<d>>

\* str(int)
IntStr(n) == Digits(n)

\* str(float) of a whole number: 30.0 -> "30.0"
FloatStr(n) == Digits(n) \o <<".", "0">>

----------------------------------------------------------------------------
(* app/services/tools/detect.py *)

S_sql    == <<"s","q","l",":">>
S_web    == <<"w","e","b",":">>
S_search == <<"s","e","a","r","c","h",":">>
S_tool   == <<"t","o","o","l",":">>

T_sql == <<"s","q","l">>
T_web == <<"w","e","b">>

\* _PREFIX_MAP[prefix[:-1]] for the three prefixes the code iterates over
PrefixMap(p) ==
    IF p = S_sql THEN T_sql
    ELSE IF p = S_web THEN T_web
    ELSE IF p = S_search THEN T_web
    ELSE None

DirectPrefixes == <<S_sql, S_web, S_search>>

\* the body of `for p in (...): if s.lower().startswith(p): return (tool, arg)`:
\* first matching prefix wins, <<None, None>> when the loop falls through
RECURSIVE MatchPrefix(_, _)
MatchPrefix(s, i) ==
    IF i > Len(DirectPrefixes) THEN <<None, None>>
    ELSE IF StartsWith(Lower(s), DirectPrefixes[i])
         THEN <<PrefixMap(DirectPrefixes[i]),
                Strip(SliceFrom(s, Len(DirectPrefixes[i])))>>
         ELSE MatchPrefix(s, i + 1)

\* the text after "tool:" as the generic branch reads it
GenericRest(raw) == Strip(SliceFrom(raw, 5))

detect_tool_request_NoCaseFold(text) ==
    IF text = <<>> \/ text = None THEN <<None, None>>
    ELSE LET raw == Strip(text) IN
         IF StartsWith(raw, S_tool)
         THEN MatchPrefix(GenericRest(raw), 1)
         ELSE MatchPrefix(raw, 1)

detect_tool_request(text) ==
    IF text = <<>> \/ text = None THEN <<None, None>>
    ELSE LET raw == Strip(text) IN
         IF StartsWith(Lower(raw), S_tool)
         THEN MatchPrefix(GenericRest(raw), 1)
         ELSE MatchPrefix(raw, 1)

----------------------------------------------------------------------------
(* app/core/config.py: the Settings defaults the core reads *)

GeminiMaxRetries == 3

GeminiRetryBackoffSeconds == 2

LlmGenerateTimeoutSeconds == 30

WorkflowInvokeTimeoutSeconds == 60

DefaultSettings ==
    [ gemini_max_retries            |-> GeminiMaxRetries,
      gemini_retry_backoff_seconds  |-> GeminiRetryBackoffSeconds,
      llm_generate_timeout_seconds  |-> LlmGenerateTimeoutSeconds,
      workflow_invoke_timeout_seconds |-> WorkflowInvokeTimeoutSeconds,
      enable_checkpointer           |-> FALSE,
      debug_breakpoints             |-> FALSE ]

\* values of llm_generate_timeout_seconds a deployment may set
TimeoutChoices == {LlmGenerateTimeoutSeconds, 429}

\* Settings objects explored for a direct generate call
SettingsChoices ==
    { [DefaultSettings EXCEPT !.gemini_max_retries = r,
                              !.llm_generate_timeout_seconds = t] :
        r \in 0..MaxRetriesBound, t \in TimeoutChoices }

----------------------------------------------------------------------------
(* app/services/llm/gemini.py *)

\* GeminiProvider.__init__: the object left behind by the constructor for each
\* outcome of its environment (API key present, genai.GenerativeModel of the
\* primary model raising or not, fallback name set and its model built)
GeminiProvider_init(has_key, primary_ok, fallback_built) ==
    IF ~has_key
    THEN [kind |-> "gemini", configured |-> FALSE, model |-> FALSE, fallback |-> FALSE]
    ELSE [kind |-> "gemini", configured |-> primary_ok, model |-> primary_ok,
          fallback |-> fallback_built]

GeminiProviders ==
    { GeminiProvider_init(k, m, f) : k \in BOOLEAN, m \in BOOLEAN, f \in BOOLEAN }

is_configured(p) == p.configured /\ p.model

\* fixed user-facing messages of generate (opaque chunks)
MSG_NOT_CONFIGURED == <<"<gemini.py:74 Gemini API not configured>">>
MSG_RATE_LIMIT     == <<"<gemini.py:144 too many requests, retry later>">>
MSG_LLM_TIMEOUT    == <<"<gemini.py:146 LLM is taking too long>">>
MSG_LLM_FAILED     == <<"<gemini.py:147 could not generate an answer>">>

GenerateMessages == {MSG_NOT_CONFIGURED, MSG_RATE_LIMIT, MSG_LLM_TIMEOUT, MSG_LLM_FAILED}

\* exceptions: the class and str(e)
NoError == [cls |-> "None", text |-> <<>>]

K_429        == <<"4","2","9">>
K_rate_limit == <<"r","a","t","e"," ","l","i","m","i","t">>
K_quota      == <<"q","u","o","t","a">>
K_exceeded   == <<"e","x","c","e","e","d","e","d">>

X_timeout_after == <<"t","i","m","e","o","u","t"," ","a","f","t","e","r"," ">>
X_empty    == <<"e","m","p","t","y"," ","r","e","s","p","o","n","s","e"," ","t","e","x","t">>
X_busy     == <<"b","u","s","y">>
X_http429  == <<"H","T","T","P"," ","4","2","9">>
X_quota    == <<"Q","u","o","t","a"," ","E","x","c","e","e","d","e","d">>
X_boom     == <<"b","o","o","m">>
X_deadline == <<"D","e","a","d","l","i","n","e"," ","E","x","c","e","e","d","e","d">>

\* asyncio.TimeoutError(f"timeout after {timeout_s}s")
TimeoutError(timeout_s) ==
    [cls |-> "TimeoutError", text |-> X_timeout_after \o FloatStr(timeout_s) \o <<"s">>]

\* ValueError("empty response text")
EmptyTextError == [cls |-> "ValueError", text |-> X_empty]

\* exceptions a model call may raise
ModelErrors ==
    { [cls |-> "ResourceExhausted", text |-> X_busy],
      [cls |-> "Exception",         text |-> X_http429],
      [cls |-> "Exception",         text |-> X_quota],
      [cls |-> "RuntimeError",      text |-> X_boom],
      [cls |-> "TimeoutError",      text |-> X_deadline] }

_is_rate_limit_error(e) ==
    LET text == Lower(e.text) IN
       \/ e.cls = "ResourceExhausted"
       \/ Contains(text, K_429)
       \/ Contains(text, K_rate_limit)
       \/ Contains(text, K_quota)
       \/ Contains(text, K_exceeded)

\* response.text values of a model call that returns
R_ok            == <<"o","k">>
R_python        == <<" ","P","y","t","h","o","n","\n">>
R_manufacturing == <<"m","a","n","u","f","a","c","t","u","r","i","n","g">>
R_blank         == <<" ">>

ModelTexts == {R_ok, R_python, R_manufacturing, R_blank, <<>>, None}

\* what one generate_content_async call under asyncio.wait_for can do
ModelOutcomes ==
    { [kind |-> "text", text |-> t, err |-> NoError] : t \in ModelTexts }
    \cup { [kind |-> "hang", text |-> None, err |-> NoError] }
    \cup { [kind |-> "raise", text |-> None, err |-> e] : e \in ModelErrors }

\* what a model call did, as the log of a generate call records it: it returned
\* text that is not blank, returned blank or no text, ran into the per-call
\* timeout, raised a rate-limit-class error, or raised another error
OutcomeClass(o) ==
    IF o.kind = "text"
    THEN (IF o.text = None \/ \A i \in 1..Len(o.text) : o.text[i] \in WhiteSpace
          THEN "empty" ELSE "text")
    ELSE IF o.kind = "hang" \/ o.err.cls = "TimeoutError" THEN "timeout"
    ELSE IF _is_rate_limit_error(o.err) THEN "rate_limit"
    ELSE "error"

\* the text of a call that returned text that is not blank, as logged
LoggedText(o) == IF OutcomeClass(o) = "text" THEN o.text ELSE None

\* text = getattr(response, "text", ""); text.strip() if isinstance(text, str) else ""
ResponseText_NoStrip(o) == IF o.text = None THEN <<>> ELSE o.text

ResponseText(o) == IF o.text = None THEN <<>> ELSE Strip(o.text)

\* backoff = base_backoff * (2 ** attempt)
Backoff_Linear(base_backoff, attempt) == base_backoff * (attempt + 1)

Backoff(base_backoff, attempt) == base_backoff * (2 ^ attempt)

\* lines 142-147: the friendly message chosen from last_err
FinalMessage(last_err) ==
    IF last_err # NoError /\ _is_rate_limit_error(last_err) THEN MSG_RATE_LIMIT
    ELSE IF last_err.cls = "TimeoutError" THEN MSG_LLM_TIMEOUT
    ELSE MSG_LLM_FAILED

\* the generate call before it is made
GenIdle ==
    [ pc |-> "idle", caller |-> "none", attempt |-> 0, last_err |-> NoError,
      result |-> None, log |-> <<>>, delays |-> <<>>, backoff |-> 0 ]

\* where the retry loop `for attempt in range(max_retries)` stands next
LoopOrFallback_OneMore(attempt, max_retries) ==
    IF attempt <= max_retries THEN "primary" ELSE "fallback"

LoopOrFallback(attempt, max_retries) ==
    IF attempt < max_retries THEN "primary" ELSE "fallback"

\* lines 73-81: entry of generate, up to the first await
GenEnter(caller) ==
    IF ~is_configured(provider)
    THEN [GenIdle EXCEPT !.pc = "returned", !.caller = caller,
                         !.result = MSG_NOT_CONFIGURED]
    ELSE [GenIdle EXCEPT !.pc = LoopOrFallback(0, settings.gemini_max_retries),
                         !.caller = caller]

PrimaryStep_SuccessFallsThrough(gg, o) ==
    LET logged == [gg EXCEPT !.log = Append(@, [model |-> "primary",
                                                attempt |-> gg.attempt,
                                                outcome |-> OutcomeClass(o),
                                                text |-> LoggedText(o)])]
    IN
    IF o.kind = "text" /\ ResponseText(o) # <<>>
    THEN [logged EXCEPT !.result = ResponseText(o), !.pc = "fallback"]
    ELSE [logged EXCEPT !.last_err = EmptyTextError, !.pc = "fallback"]

\* lines 82-112: one pass of the retry loop body, given what the primary
\* model call did
PrimaryStep(gg, o) ==
    LET logged == [gg EXCEPT !.log = Append(@, [model |-> "primary",
                                                attempt |-> gg.attempt,
                                                outcome |-> OutcomeClass(o),
                                                text |-> LoggedText(o)])]
    IN
    IF o.kind = "text"
    THEN IF ResponseText(o) = <<>>
         THEN [logged EXCEPT !.last_err = EmptyTextError, !.pc = "fallback"]
         ELSE [logged EXCEPT !.result = ResponseText(o), !.pc = "returned"]
    ELSE IF o.kind = "hang" \/ o.err.cls = "TimeoutError"
    THEN [logged EXCEPT
            !.last_err = TimeoutError(settings.llm_generate_timeout_seconds),
            !.pc = "fallback"]
    ELSE IF _is_rate_limit_error(o.err)
    THEN [logged EXCEPT
            !.last_err = o.err,
            !.backoff = Backoff(settings.gemini_retry_backoff_seconds, gg.attempt),
            !.pc = "backoff"]
    ELSE [logged EXCEPT !.last_err = o.err, !.pc = "fallback"]

\* lines 108-109: asyncio.sleep(backoff) is over; `continue`
BackoffStep_SameAttempt(gg) ==
    [gg EXCEPT !.delays = Append(@, [attempt |-> gg.attempt, seconds |-> gg.backoff]),
               !.pc = LoopOrFallback(gg.attempt, settings.gemini_max_retries)]

BackoffStep(gg) ==
    [gg EXCEPT !.delays = Append(@, [attempt |-> gg.attempt, seconds |-> gg.backoff]),
               !.attempt = gg.attempt + 1,
               !.pc = LoopOrFallback(gg.attempt + 1, settings.gemini_max_retries)]

\* lines 116-147 with a fallback model: its single call, then the final message
FallbackStep(gg, o) ==
    LET logged == [gg EXCEPT !.log = Append(@, [model |-> "fallback",
                                                attempt |-> gg.attempt,
                                                outcome |-> OutcomeClass(o),
                                                text |-> LoggedText(o)]),
                             !.pc = "returned"]
    IN
    IF o.kind = "text"
    THEN IF ResponseText(o) = <<>>
         THEN [logged EXCEPT !.result = FinalMessage(gg.last_err)]
         ELSE [logged EXCEPT !.result = ResponseText(o)]
    ELSE IF o.kind = "hang" \/ o.err.cls = "TimeoutError"
    THEN LET e == TimeoutError(settings.llm_generate_timeout_seconds) IN
         [logged EXCEPT !.last_err = e, !.result = FinalMessage(e)]
    ELSE [logged EXCEPT !.last_err = o.err, !.result = FinalMessage(o.err)]

\* lines 115, 142-147 without a fallback model
NoFallbackStep(gg) ==
    [gg EXCEPT !.pc = "returned", !.result = FinalMessage(gg.last_err)]

\* seconds a model call under asyncio.wait_for(..., timeout=timeout_s) takes
CallSeconds(o) ==
    IF o.kind = "hang" THEN settings.llm_generate_timeout_seconds ELSE 0

----------------------------------------------------------------------------
(* the deadline of process_query: asyncio.wait_for(invoke_coro, timeout_s) *)

Deadline == settings.workflow_invoke_timeout_seconds

\* the operations that run process_query: one call, or a series of calls on
\* one engine
WorkflowOps == {"process_query", "session", "turns"}

\* an awaited step of d seconds inside the graph does not finish before the
\* deadline fires
Late(d) == op \in WorkflowOps /\ now + d >= Deadline

\* the coroutine at its await point may run (it has not been cancelled)
Runnable(caller_pc) == op = "generate" \/ (op \in WorkflowOps /\ wf.pc = caller_pc)

\* wait_for cancels the graph at the deadline; nothing of the run changes any more
Abandon ==
    /\ now' = Deadline
    /\ wf' = [wf EXCEPT !.pc = "cancelled"]
    /\ UNCHANGED <<op, d_text, d_result, settings, provider, registry, chat, direct, session, last_debug_info, g, st>>

----------------------------------------------------------------------------
(* GeminiProvider.generate, step by step *)

GenPrimary ==
    /\ provider.kind = "gemini"
    /\ g.pc = "primary"
    /\ Runnable("await_llm")
    /\ \E o \in ModelOutcomes :
         IF Late(CallSeconds(o)) THEN Abandon
         ELSE /\ g' = PrimaryStep(g, o)
              /\ now' = now + CallSeconds(o)
              /\ UNCHANGED <<op, d_text, d_result, settings, provider, registry, chat, direct, session, last_debug_info, wf, st>>

GenBackoff ==
    /\ provider.kind = "gemini"
    /\ g.pc = "backoff"
    /\ Runnable("await_llm")
    /\ IF Late(g.backoff) THEN Abandon
       ELSE /\ g' = BackoffStep(g)
            /\ now' = now + g.backoff
            /\ UNCHANGED <<op, d_text, d_result, settings, provider, registry, chat, direct, session, last_debug_info, wf, st>>

GenFallback ==
    /\ provider.kind = "gemini"
    /\ g.pc = "fallback"
    /\ Runnable("await_llm")
    /\ IF provider.fallback
       THEN \E o \in ModelOutcomes :
              IF Late(CallSeconds(o)) THEN Abandon
              ELSE /\ g' = FallbackStep(g, o)
                   /\ now' = now + CallSeconds(o)
                   /\ UNCHANGED <<op, d_text, d_result, settings, provider, registry, chat, direct, session, last_debug_info, wf, st>>
       ELSE /\ g' = NoFallbackStep(g)
            /\ UNCHANGED <<op, d_text, d_result, settings, provider, registry, chat, direct, session, last_debug_info, wf, st, now>>

\* a caller outside the graph awaits provider.generate(prompt)
CallGenerate ==
    /\ op = "generate"
    /\ g.pc = "idle"
    /\ g' = GenEnter("direct")
    /\ UNCHANGED <<op, d_text, d_result, settings, provider, registry, chat, direct, session, last_debug_info, wf, st, now>>

----------------------------------------------------------------------------
(* app/services/tools/registry.py *)

ToolTimeoutSeconds == 5

MSG_UNKNOWN_TOOL == <<"<registry.py:50 unknown tool; supported: sql:, web: / search:>">>

\* sql.run(arg) and web.run(arg): placeholder text that ends with the argument
SqlRun(arg) == <<"[SQL Tool]", "<sql.py:10-12 not enabled yet; received query:>", " ">> \o arg

WebRun(arg) == <<"[Web Search Tool]", "<web.py:10-12 not enabled yet; received terms:>", " ">> \o arg

\* TOOL_RUNNERS is a module-level dict that callers rebind: under a name it
\* holds the built-in placeholder, or a handler that outlasts the timeout, or
\* one that raises
HandlersFor(name) ==
    IF name = T_sql THEN {"sql.run", "slow", "boom"}
    ELSE IF name = T_web THEN {"web.run", "slow", "boom"}
    ELSE {}

\* seconds async_execute_tool keeps its caller waiting
ToolSeconds(h, timeout_s) == IF h = "slow" THEN timeout_s ELSE 0

\* handlers a test or a deployment registers in TOOL_RUNNERS: the two built-in
\* placeholders, a coroutine function, one that returns "", one that outlasts
\* every timeout, one that raises RuntimeError("boom"), one that raises an
\* exception with no message
HandlerKinds == {"sql.run", "web.run", "async_ok", "empty", "slow", "boom", "boom_empty"}

RaisingHandlers == {"boom", "boom_empty"}

\* what the handler returns, when it returns
HandlerReturn(h, arg) ==
    IF h = "sql.run" THEN SqlRun(arg)
    ELSE IF h = "web.run" THEN WebRun(arg)
    ELSE IF h = "async_ok" THEN <<"o", "k", ":">> \o arg
    ELSE IF h = "slow" THEN <<"d", "o", "n", "e">>
    ELSE <<>>

\* str(e) of what the handler raises
HandlerError(h) == IF h = "boom" THEN X_boom ELSE <<>>

\* async_execute_tool without the asyncio.wait_for around the handler
async_execute_tool_NoTimeout(tool, arg, timeout_s, h) ==
    LET name == IF tool = None THEN <<>> ELSE Lower(tool) IN
    IF name = <<>>
    THEN [tool |-> <<>>, input |-> arg, output |-> MSG_UNKNOWN_TOOL,
          error |-> <<"u","n","k","n","o","w","n","_","t","o","o","l">>, took_ms |-> 0]
    ELSE IF h = "none"
    THEN [tool |-> name, input |-> arg,
          output |-> <<"[Tool:">> \o tool \o <<"]", " ", "<registry.py:56 not enabled yet; input:>", " ">> \o arg,
          error |-> <<"u","n","s","u","p","p","o","r","t","e","d","_","t","o","o","l">>,
          took_ms |-> 0]
    ELSE IF h \in RaisingHandlers
    THEN [tool |-> name, input |-> arg, output |-> <<>>, error |-> HandlerError(h),
          took_ms |-> 0]
    ELSE [tool |-> name, input |-> arg, output |-> HandlerReturn(h, arg),
          error |-> None, took_ms |-> 0]

\* async_execute_tool(tool, arg, timeout_s) when TOOL_RUNNERS holds handler h
\* under the lower-cased name (h = "none": no entry)
async_execute_tool(tool, arg, timeout_s, h) ==
    LET name == IF tool = None THEN <<>> ELSE Lower(tool) IN
    IF name = <<>>
    THEN [tool |-> <<>>, input |-> arg, output |-> MSG_UNKNOWN_TOOL,
          error |-> <<"u","n","k","n","o","w","n","_","t","o","o","l">>, took_ms |-> 0]
    ELSE IF h = "none"
    THEN [tool |-> name, input |-> arg,
          output |-> <<"[Tool:">> \o tool \o <<"]", " ", "<registry.py:56 not enabled yet; input:>", " ">> \o arg,
          error |-> <<"u","n","s","u","p","p","o","r","t","e","d","_","t","o","o","l">>,
          took_ms |-> 0]
    ELSE IF h = "slow"
    THEN [tool |-> name, input |-> arg, output |-> <<>>,
          error |-> X_timeout_after \o FloatStr(timeout_s) \o <<"s">>,
          took_ms |-> timeout_s * 1000]
    ELSE IF h \in RaisingHandlers
    THEN [tool |-> name, input |-> arg, output |-> <<>>, error |-> HandlerError(h),
          took_ms |-> 0]
    ELSE [tool |-> name, input |-> arg, output |-> HandlerReturn(h, arg),
          error |-> None, took_ms |-> 0]

\* contents of TOOL_RUNNERS: the built-in table, or "sql" rebound
RunnerTables ==
    { [n \in {T_sql, T_web} |-> IF n = T_sql THEN h ELSE "web.run"] :
        h \in HandlerKinds \ {"web.run"} }

\* TOOL_RUNNERS.get(name)
LookupRunner_DefaultSql(runners, name) ==
    IF name \in DOMAIN runners THEN runners[name] ELSE runners[T_sql]

LookupRunner(runners, name) == IF name \in DOMAIN runners THEN runners[name] ELSE "none"

\* arguments of a direct call
ToolNameChoices ==
    { None, <<>>, T_sql, <<"S", "Q", "L">>, T_web, <<"f", "o", "o">>, <<" ">> }

ToolArgChoices == { <<>>, <<"x">> }

ToolTimeoutChoices == { ToolTimeoutSeconds, 1 }

\* the direct call before it is made
ToolCallIdle ==
    [ pc |-> "idle", tool |-> None, arg |-> <<>>, timeout_s |-> ToolTimeoutSeconds,
      runners |-> [n \in {T_sql, T_web} |-> IF n = T_sql THEN "sql.run" ELSE "web.run"],
      invoked |-> <<>>, result |-> <<>>, late |-> <<>> ]

\* the handler the call looks up
HandlerOfCall(c) ==
    LookupRunner(c.runners, IF c.tool = None THEN <<>> ELSE Lower(c.tool))

\* lines 46-64: up to the return for a missing name or handler, or to the await
CallAsyncExecuteTool ==
    /\ op = "tool"
    /\ tool_call.pc = "idle"
    /\ \E tool \in ToolNameChoices, arg \in ToolArgChoices,
          timeout_s \in ToolTimeoutChoices, runners \in RunnerTables :
         LET c == [tool_call EXCEPT !.tool = tool, !.arg = arg,
                                    !.timeout_s = timeout_s, !.runners = runners]
             h == HandlerOfCall(c)
         IN
         tool_call' =
            IF tool = None \/ tool = <<>> \/ h = "none"
            THEN [c EXCEPT !.pc = "returned",
                           !.result = <<async_execute_tool(tool, arg, timeout_s, h)>>]
            ELSE [c EXCEPT !.pc = "awaiting", !.invoked = <<h>>]
    /\ UNCHANGED <<op, d_text, d_result, settings, provider, registry, chat, route_call,
                   stream, debug_call,
                   session, last_debug_info, g, wf, st, now>>

\* lines 66-74: the await under asyncio.wait_for ends, by the handler's return,
\* by its exception, or by the timeout
ToolAwaitDone ==
    /\ op = "tool"
    /\ tool_call.pc = "awaiting"
    /\ LET h == HandlerOfCall(tool_call) IN
       /\ tool_call' = [tool_call EXCEPT
                          !.pc = "returned",
                          !.result = <<async_execute_tool(tool_call.tool, tool_call.arg,
                                                          tool_call.timeout_s, h)>>]
       /\ now' = now + ToolSeconds(h, tool_call.timeout_s)
    /\ UNCHANGED <<op, d_text, d_result, settings, provider, registry, chat, route_call,
                   stream, debug_call,
                   session, last_debug_info, g, wf, st>>

\* line 64: the thread asyncio.to_thread started runs on after the timeout;
\* nobody reads what the handler returns
ToolHandlerLate ==
    /\ op = "tool"
    /\ tool_call.pc = "returned"
    /\ tool_call.invoked = <<"slow">>
    /\ tool_call.late = <<>>
    /\ tool_call' = [tool_call EXCEPT
                       !.late = <<HandlerReturn("slow", tool_call.arg)>>]
    /\ UNCHANGED <<op, d_text, d_result, settings, provider, registry, chat, route_call,
                   stream, debug_call,
                   session, last_debug_info, g, wf, st, now>>

----------------------------------------------------------------------------
(* app/services/agents *)

AgentNames == {"manufacturing", "python", "general"}

AgentMissing_Never(name) == FALSE

\* get_agent_v2(name) is None
AgentMissing(name) == name \notin registry

AgentApology_Generic(name, user_query) ==
    <<"<general_responder.py:50 thank you for asking about>">> \o user_query
    \o <<"<general_responder.py:50-51 no LLM provider: no detailed answer>">>

\* the content an agent returns without calling the provider when
\* llm.is_configured is false
AgentApology(name, user_query) ==
    IF name = "manufacturing"
    THEN <<"<manufacturing_advisor.py:50 no LLM provider: no manufacturing advice>">>
    ELSE IF name = "python"
    THEN <<"<python_mentor.py:45 no LLM provider: no Python guidance>">>
    ELSE <<"<general_responder.py:50 thank you for asking about>">> \o user_query
         \o <<"<general_responder.py:50-51 no LLM provider: no detailed answer>">>

\* AgentOutput.content of run_v2 when llm.generate raised
AGENT_ERROR_CONTENT == <<"<manufacturing_advisor.py:55 an error occurred while generating the answer>">>

\* python_mentor.run_v2: the registry and the tests name it; it answers a
\* provider exception the way the other two agents do
PythonAgentErrorContent == AGENT_ERROR_CONTENT

AgentErrorContent(name) ==
    IF name = "python" THEN PythonAgentErrorContent ELSE AGENT_ERROR_CONTENT

----------------------------------------------------------------------------
(* app/services/langgraph_service.py: WorkflowState and the node bodies *)

MSG_AGENT_NOT_REGISTERED == <<"<langgraph_service.py:416 agent is not registered>">>
MSG_TOOL_NOT_RECOGNIZED  == <<"<langgraph_service.py:531 tool request not recognized>">>
MSG_WORKFLOW_TIMEOUT     == <<"<langgraph_service.py:206 processing timed out>">>
MSG_WORKFLOW_ERROR       == <<"<langgraph_service.py:210 an error occurred while processing>">>
MSG_EMPTY_RESPONSE       == <<"<langgraph_service.py:226 could not generate an answer>">>
MSG_SYSTEM_ERROR         == <<"<langgraph_service.py:232 system error>">>

E_agent_not_registered ==
    <<"a","g","e","n","t","_","n","o","t","_","r","e","g","i","s","t","e","r","e","d">>

\* lines 179-189: the fresh WorkflowState of one call
InitialState(query, thread_id, debug) ==
    [ user_query |-> query, conversation_history |-> <<>>, file_context |-> <<>>,
      query_type |-> "", response |-> <<>>, error |-> None,
      thread_id |-> thread_id, tool_name |-> None, tool_input |-> None,
      messages |-> <<>>, debug |-> debug, decision_trace |-> <<>> ]

AppendTrace_Replace(state, event) ==
    IF ~state.debug THEN state
    ELSE [state EXCEPT !.decision_trace = <<event>>]

\* _append_trace
AppendTrace(state, event) ==
    IF ~state.debug THEN state
    ELSE [state EXCEPT !.decision_trace = Append(@, event)]

TraceEvent(type, name, reason) ==
    [type |-> type, name |-> name, reason |-> reason,
     tool_input |-> None, took_ms |-> -1, error |-> None]

REASON_EXPLICIT_TOOL == <<"<langgraph_service.py:339 explicit tool prefix>">>
REASON_GENERIC_TOOL  == <<"<langgraph_service.py:356 generic tool prefix>">>
REASON_LLM           == <<"<langgraph_service.py:369 LLM classification>">>
REASON_KEYWORD       == <<"<langgraph_service.py:381 keyword match>">>
REASON_TOOL_RUN      == <<"<langgraph_service.py:574 tool run>">>

\* the messages a branch node hands to the add_messages reducer
WithMessages_Overwrite(state) ==
    [state EXCEPT !.messages =
        <<[role |-> "user", content |-> state.user_query],
          [role |-> "assistant", content |-> state.response]>>]

WithMessages(state) ==
    [state EXCEPT !.messages = @ \o
        <<[role |-> "user", content |-> state.user_query],
          [role |-> "assistant", content |-> state.response]>>]

ManufacturingWords ==
    { <<"U+6539","U+5584">>, <<"U+54C1","U+8CEA">>, <<"U+88FD","U+9020">>,
      <<"U+52B9","U+7387">>, <<"U+751F","U+7523">> }

ProgrammingWords ==
    { <<"p","y","t","h","o","n">>, <<"U+30D7","U+30ED","U+30B0","U+30E9","U+30E0">>,
      <<"U+30B3","U+30FC","U+30C9">>, <<"U+30B9","U+30AF","U+30EA","U+30D7","U+30C8">> }

AgentMap(query_type) ==
    IF query_type = "manufacturing" THEN <<"manufacturing_advisor">>
    ELSE IF query_type = "python" THEN <<"python_mentor">>
    ELSE <<"general_responder">>

\* _analyze_query lines 329-343: an explicit tool prefix was detected
AnalyzeExplicitTool(state, tool_name, tool_arg) ==
    AppendTrace([state EXCEPT !.query_type = "tool", !.tool_name = tool_name,
                              !.tool_input = tool_arg],
                TraceEvent("tool_detected", tool_name, REASON_EXPLICIT_TOOL))

\* _analyze_query lines 346-360: bare "tool:" without a known sub-prefix
AnalyzeGenericTool(state) ==
    AppendTrace([state EXCEPT !.query_type = "tool", !.tool_name = None,
                              !.tool_input = Strip(SliceFrom(state.user_query, 5))],
                TraceEvent("tool_detected", <<"u","n","k","n","o","w","n">>, REASON_GENERIC_TOOL))

\* _analyze_query lines 383-396: store the category and trace the agent
AnalyzeStore(state, query_type, reason) ==
    LET s1 == [state EXCEPT !.query_type = query_type] IN
    IF query_type \in AgentNames
    THEN AppendTrace(s1, TraceEvent("agent_selected", AgentMap(query_type), reason))
    ELSE s1

CategoryOfReply_Raw(text) ==
    IF text = <<"m","a","n","u","f","a","c","t","u","r","i","n","g">> THEN "manufacturing"
    ELSE IF text = <<"p","y","t","h","o","n">> THEN "python"
    ELSE "general"

\* _analyze_query lines 365-369: the category read from the provider's reply
CategoryOfReply(text) ==
    LET q == Lower(Strip(text)) IN
    IF q = <<"m","a","n","u","f","a","c","t","u","r","i","n","g">> THEN "manufacturing"
    ELSE IF q = <<"p","y","t","h","o","n">> THEN "python"
    ELSE "general"

CategoryOfKeywords_ProgrammingFirst(user_query) ==
    LET q == Lower(user_query) IN
    IF \E w \in ProgrammingWords : Contains(q, w) THEN "python"
    ELSE IF \E w \in ManufacturingWords : Contains(q, w) THEN "manufacturing"
    ELSE IF Truthy(detect_tool_request(user_query)[1]) THEN "tool"
    ELSE "general"

\* _analyze_query lines 372-380: the category read from keywords
CategoryOfKeywords(user_query) ==
    LET q == Lower(user_query) IN
    IF \E w \in ManufacturingWords : Contains(q, w) THEN "manufacturing"
    ELSE IF \E w \in ProgrammingWords : Contains(q, w) THEN "python"
    ELSE IF Truthy(detect_tool_request(user_query)[1]) THEN "tool"
    ELSE "general"

\* _analyze_query lines 398-400: the except branch
AnalyzeOnError_RecordsError(state) ==
    [state EXCEPT !.query_type = "general", !.error = X_boom]

AnalyzeOnError(state) == [state EXCEPT !.query_type = "general"]

\* the three agent nodes, lines 413-416 and 426-429: no v2 agent registered
NodeAgentMissing(state) ==
    WithMessages([state EXCEPT !.error = E_agent_not_registered,
                               !.response = MSG_AGENT_NOT_REGISTERED])

\* the three agent nodes, lines 423-429: state['response'] = out.content
NodeAgentDone_Reclassify(state, content) ==
    WithMessages([state EXCEPT !.response = content, !.query_type = "general"])

NodeAgentDone(state, content) == WithMessages([state EXCEPT !.response = content])

\* line 508: the length above which the traced tool input is cut
ToolInputLimit == 120

\* tool_input_short, lines 507-509
ToolInputShort(arg) ==
    IF Len(arg) > ToolInputLimit
    THEN SubSeq(arg, 1, ToolInputLimit) \o <<".", ".", ".">>
    ELSE arg

\* _process_tool_query lines 498-504: the (arg or "") handed to
\* async_execute_tool
ToolArgOfState(state) ==
    LET arg0 == IF Truthy(state.tool_input) THEN state.tool_input ELSE state.user_query
        again == detect_tool_request(state.user_query)
        arg  == IF Truthy(state.tool_name) THEN arg0 ELSE again[2]
    IN IF Truthy(arg) THEN arg ELSE <<>>

\* _process_tool_query lines 498-536, given the handler TOOL_RUNNERS holds
ProcessTool(state, h) ==
    LET again == detect_tool_request(state.user_query)
        tool == IF Truthy(state.tool_name) THEN state.tool_name ELSE again[1]
    IN
    IF Truthy(tool)
    THEN LET a  == ToolArgOfState(state)
             tr == async_execute_tool(tool, a, ToolTimeoutSeconds, h)
             traced == AppendTrace(state,
                         [type |-> "tool_invoked", name |-> tr.tool, reason |-> None,
                          tool_input |-> ToolInputShort(a), took_ms |-> tr.took_ms,
                          error |-> tr.error])
             took == <<" ", "(took", " ">> \o IntStr(tr.took_ms) \o <<"ms)">>
         IN
         IF Truthy(tr.error)
         THEN WithMessages([traced EXCEPT !.response =
                  <<"[tool:">> \o tr.tool \o <<"]", " ", "<error>:", " ">> \o tr.error \o took])
         ELSE WithMessages([traced EXCEPT !.response =
                  <<"[tool:">> \o tr.tool \o <<"]", " ", "<result>">> \o took
                  \o <<":", "\n">> \o tr.output])
    ELSE WithMessages([state EXCEPT !.response = MSG_TOOL_NOT_RECOGNIZED])

\* the handler the tool node ends up calling, if any
ToolOfState(state) ==
    IF Truthy(state.tool_name) THEN state.tool_name
    ELSE detect_tool_request(state.user_query)[1]

\* line 577: the header line of the summary
DisplayHeader(selected_agent, selected_tool, reason) ==
    <<"Agent:", " ">> \o (IF Truthy(selected_agent) THEN selected_agent ELSE <<"none">>)
    \o <<" ", "/", " ", "Tool:", " ">> \o (IF Truthy(selected_tool) THEN selected_tool ELSE <<"none">>)
    \o <<" ", "/", " ", "<reason>:", " ">> \o (IF Truthy(reason) THEN reason ELSE <<"U+2014">>)

\* line 571: the event types the scan for a reason stops at
RelevantTypes == {"agent_selected", "tool_detected", "tool_invoked"}

\* lines 570-575: the index of the event the reversed scan breaks at, 0 if none
LatestRelevant(trace) ==
    LET idx == { i \in 1..Len(trace) : trace[i].type \in RelevantTypes } IN
    IF idx = {} THEN 0 ELSE CHOOSE i \in idx : \A j \in idx : j <= i

BuildDebugInfo_LastEventOnly(state) ==
    LET qt == state.query_type
        selected_agent == IF qt \in AgentNames THEN AgentMap(qt) ELSE None
        selected_tool  == IF qt = "tool" THEN state.tool_name ELSE None
        trace == state.decision_trace
        last  == IF trace = <<>> THEN TraceEvent("none", None, None) ELSE trace[Len(trace)]
        reason == IF trace = <<>> THEN None
                  ELSE IF Truthy(last.reason) THEN last.reason
                  ELSE IF last.type = "tool_invoked" THEN REASON_TOOL_RUN
                  ELSE None
    IN
    [ display_header |-> DisplayHeader(selected_agent, selected_tool, reason),
      selected_agent |-> selected_agent,
      selected_tool  |-> selected_tool,
      decision_trace |-> trace,
      thread_id      |-> state.thread_id ]

BuildDebugInfo_ToolAlways(state) ==
    LET qt == state.query_type
        selected_agent == IF qt \in AgentNames THEN AgentMap(qt) ELSE None
        selected_tool  == state.tool_name
        trace == state.decision_trace
    IN
    [ display_header |-> DisplayHeader(selected_agent, selected_tool, None),
      selected_agent |-> selected_agent,
      selected_tool  |-> selected_tool,
      decision_trace |-> trace,
      thread_id      |-> state.thread_id ]

\* _build_debug_info
BuildDebugInfo(state) ==
    LET qt == state.query_type
        selected_agent == IF qt \in AgentNames THEN AgentMap(qt) ELSE None
        selected_tool  == IF qt = "tool" THEN state.tool_name ELSE None
        trace == state.decision_trace
        k == LatestRelevant(trace)
        reason == IF k = 0 THEN None
                  ELSE IF Truthy(trace[k].reason) THEN trace[k].reason
                  ELSE IF trace[k].type = "tool_invoked" THEN REASON_TOOL_RUN
                  ELSE None
    IN
    [ display_header |-> DisplayHeader(selected_agent, selected_tool, reason),
      selected_agent |-> selected_agent,
      selected_tool  |-> selected_tool,
      decision_trace |-> trace,
      thread_id      |-> state.thread_id ]

\* self._last_debug_info = None
NoDebugInfo == <<>>

\* lines 208-220: _last_debug_info once ainvoke has returned `result`; the
\* early return on result["error"] leaves it as it was
DebugInfoAfter(result, before) ==
    IF Truthy(result.error) THEN before
    ELSE IF result.debug THEN <<BuildDebugInfo(result)>>
    ELSE NoDebugInfo

\* get_last_debug_info
get_last_debug_info == last_debug_info

\* lines 222-227: the text handed back to the caller
NormalizeResponse_NoBackstop(response) ==
    IF response = None THEN <<>> ELSE Strip(response)

NormalizeResponse(response) ==
    LET response_text == IF response = None THEN <<>> ELSE Strip(response) IN
    IF response_text = <<>> THEN MSG_EMPTY_RESPONSE ELSE response_text

\* lines 208-227: what process_query returns once ainvoke has returned `result`
ReturnValue(result) ==
    IF Truthy(result.error) THEN MSG_WORKFLOW_ERROR
    ELSE NormalizeResponse(result.response)

\* lines 204-206: what process_query returns when wait_for raised TimeoutError
TimeoutValue_LateResult(state) == NormalizeResponse(state.response)

TimeoutValue(state) == MSG_WORKFLOW_TIMEOUT

----------------------------------------------------------------------------
(* _build_workflow: the compiled graph *)

END == "__end__"

EntryPoint == "analyze_query"

AgentNodes == {"process_manufacturing", "process_python", "general_response"}

BranchNodes == AgentNodes \cup {"process_tool"}

AgentOfNode(node) ==
    IF node = "process_manufacturing" THEN "manufacturing"
    ELSE IF node = "process_python" THEN "python"
    ELSE "general"

\* _route_query
RouteQuery(state) == state.query_type

\* add_conditional_edges("analyze_query", _route_query, {...})
ConditionalEdges ==
    [ manufacturing |-> "process_manufacturing", python |-> "process_python",
      general |-> "general_response", tool |-> "process_tool" ]

\* the node the graph runs after `node`: the conditional edge out of
\* analyze_query, add_edge(branch, END) out of a branch node; a route key
\* outside the mapping makes ainvoke raise
NextNode_Loop(node, state) ==
    IF node = "analyze_query"
    THEN (IF RouteQuery(state) \in DOMAIN ConditionalEdges
          THEN ConditionalEdges[RouteQuery(state)] ELSE "<raise>")
    ELSE IF node = "process_tool" /\ state.tool_name = None THEN "general_response"
    ELSE END

NextNode(node, state) ==
    IF node = "analyze_query"
    THEN (IF RouteQuery(state) \in DOMAIN ConditionalEdges
          THEN ConditionalEdges[RouteQuery(state)] ELSE "<raise>")
    ELSE END

WfIdle ==
    [ pc |-> "idle", node |-> "none", visited |-> <<>>, ret |-> None,
      raised |-> FALSE, llm_calls |-> <<>>, agents |-> <<>>, handlers |-> <<>>,
      llm_results |-> <<>>, tool_args |-> <<>>, call |-> 0, info0 |-> <<>>, overlapped |-> FALSE ]

----------------------------------------------------------------------------
(* inputs *)

Q_sql       == <<"s","q","l",":"," ","x">>
Q_SQL       == <<" ","S","Q","L",":","x"," ">>
Q_tool_web  == <<"T","o","o","l",":","w","e","b",":"," ","x">>
Q_tool_sql  == <<"t","o","o","l",":"," ","s","q","l",":","x">>
Q_tool_x    == <<"t","o","o","l",":","x">>
Q_sp_tool_x == <<" ","t","o","o","l",":","x">>
Q_kaizen    == <<"U+6539","U+5584","x">>
Q_python    == <<"P","y","t","h","o","n","?">>
Q_plain     == <<"x">>
Q_both      == <<"p","y","t","h","o","n"," ","U+54C1","U+8CEA">>
Q_sql_empty == <<"s","q","l",":">>
\* a tool argument one character longer than the trace keeps
Q_sql_long  == <<"s","q","l",":">> \o [i \in 1..(ToolInputLimit + 1) |-> "x"]

\* queries handed to process_query
WorkflowQueries ==
    { Q_sql, Q_SQL, Q_tool_web, Q_tool_sql, Q_tool_x, Q_sp_tool_x,
      Q_kaizen, Q_python, Q_plain, Q_both, Q_sql_empty, Q_sql_long }

\* pieces a query handed to detect_tool_request is made of
Segments ==
    << <<" ">>, S_sql, <<"W","E","B",":">>, <<"S","e","a","r","c","h",":">>,
       S_tool, <<"T","o","O","l",":">>, <<"x">>, <<"q","l">> >>

RECURSIVE Flatten(_)
Flatten(ss) == IF ss = <<>> THEN <<>> ELSE Head(ss) \o Flatten(Tail(ss))

DetectQueries ==
    { Flatten([i \in 1..Len(f) |-> Segments[f[i]]]) :
        f \in UNION { [1..n -> 1..Len(Segments)] : n \in 0..MaxSegs } }

\* an LLMProvider other than GeminiProvider handed to LangGraphService(...)
StubProviders ==
    { [kind |-> "stub", configured |-> c, model |-> c, fallback |-> FALSE] : c \in BOOLEAN }

\* what generate of such a provider can do: return any str, raise, or never return
StubOutcomes ==
    { [kind |-> "text", text |-> t, err |-> NoError] : t \in ModelTexts \ {None} }
    \cup { [kind |-> "hang", text |-> None, err |-> NoError] }
    \cup { [kind |-> "raise", text |-> None, err |-> [cls |-> "RuntimeError", text |-> X_boom]] }

\* contents of _REGISTRY_V2: complete, or with one entry removed
Registries == { AgentNames \ x : x \in { y \in SUBSET AgentNames : Cardinality(y) <= 1 } }

\* values of workflow_invoke_timeout_seconds: the default, and a short one
WorkflowTimeoutChoices == {WorkflowInvokeTimeoutSeconds, ToolTimeoutSeconds}

----------------------------------------------------------------------------
(* direct call of detect_tool_request *)

CallDetect ==
    /\ op = "detect"
    /\ d_result = <<>>
    /\ \E q \in DetectQueries :
         /\ d_text' = q
         /\ d_result' = detect_tool_request(q)
    /\ UNCHANGED <<op, settings, provider, registry, chat, direct, session, last_debug_info, g, wf, st, now>>

----------------------------------------------------------------------------
(* LangGraphService.process_query, step by step *)

\* provider.generate(prompt) is awaited from inside a node
AwaitGenerate(caller) ==
    IF provider.kind = "gemini" THEN GenEnter(caller)
    ELSE [GenIdle EXCEPT !.pc = "stub", !.caller = caller]

\* lines 177-203: build the state and start ainvoke under wait_for
CallProcessQuery ==
    /\ op = "process_query"
    /\ wf.pc = "idle"
    /\ \E q \in WorkflowQueries, debug \in BOOLEAN :
         st' = InitialState(q, None, debug)
    /\ wf' = [wf EXCEPT !.pc = "node_start", !.node = EntryPoint,
                        !.visited = <<EntryPoint>>]
    /\ UNCHANGED <<op, d_text, d_result, settings, provider, registry, chat, direct, session, last_debug_info, g, now>>

\* correlation ids a caller passes
T1 == <<"t", "1">>

SessionThreads == {None, T1}

SessionQueries == {Q_sql, Q_tool_x, Q_python, Q_plain}

\* lines 84-92 and 194-199: the graph was compiled with MemorySaver and the
\* call names a thread
Durable(state) == settings.enable_checkpointer /\ Truthy(state.thread_id)

\* the state ainvoke starts from: the keys of initial_state overwrite the
\* thread's checkpoint, the keys initial_state does not hold keep its values
StartState(input) ==
    IF Durable(input) /\ checkpoint # <<>>
    THEN [input EXCEPT !.tool_name = checkpoint[1].tool_name,
                       !.tool_input = checkpoint[1].tool_input,
                       !.messages = checkpoint[1].messages]
    ELSE input

\* a call that has started and has not yet handed its result to its caller
InFlight(w) == w.pc \notin {"idle", "observed"}

\* where a running call awaits: between nodes, and between the end of
\* ainvoke or the firing of the deadline and the resumption of process_query
AwaitPoints == {"node_start", "node_done", "graph_end", "graph_raised", "cancelled"}

\* an engine that serves more than one call: calls that may overlap
\* ("session"), or the turns of one conversation, each awaited before the
\* next is sent ("turns")
SessionOps == {"session", "turns"}

CallBound == IF op = "turns" THEN MaxTurns ELSE MaxCalls

CallsStarted == Len(observed) + Len(parked) + (IF InFlight(wf) THEN 1 ELSE 0)

\* lines 177-203 on an engine that has served, or is serving, other calls
SessionCall ==
    /\ op \in SessionOps
    /\ ~InFlight(wf)
    /\ CallsStarted < CallBound
    /\ \E q \in SessionQueries, debug \in BOOLEAN, thread_id \in SessionThreads :
         LET start == StartState(InitialState(q, thread_id, debug)) IN
         /\ st' = start
         /\ checkpoint' = IF Durable(start) THEN <<start>> ELSE checkpoint
    /\ wf' = [WfIdle EXCEPT !.pc = "node_start", !.node = EntryPoint,
                            !.visited = <<EntryPoint>>,
                            !.call = CallsStarted + 1,
                            !.info0 = last_debug_info,
                            !.overlapped = parked # <<>>]
    /\ parked' = IF parked = <<>> THEN parked
                 ELSE <<[parked[1] EXCEPT !.wf.overlapped = TRUE]>>
    /\ g' = GenIdle
    /\ now' = 0
    /\ UNCHANGED <<op, d_text, d_result, settings, provider, registry, chat, direct, observed, last_debug_info>>

\* _analyze_query up to its return or to the await of the provider
AnalyzeQuery ==
    /\ wf.pc = "node_start"
    /\ wf.node = "analyze_query"
    /\ LET det == detect_tool_request(st.user_query) IN
       IF Truthy(det[1])
       THEN /\ st' = AnalyzeExplicitTool(st, det[1], det[2])
            /\ wf' = [wf EXCEPT !.pc = "node_done"]
            /\ g' = g
       ELSE IF StartsWith(Lower(Strip(st.user_query)), S_tool)
       THEN /\ st' = AnalyzeGenericTool(st)
            /\ wf' = [wf EXCEPT !.pc = "node_done"]
            /\ g' = g
       ELSE IF is_configured(provider)
       THEN /\ g' = AwaitGenerate("analyze_query")
            /\ wf' = [wf EXCEPT !.pc = "await_llm",
                                !.llm_calls = Append(@, "analyze_query")]
            /\ st' = st
       ELSE /\ st' = AnalyzeStore(st, CategoryOfKeywords(st.user_query), REASON_KEYWORD)
            /\ wf' = [wf EXCEPT !.pc = "node_done"]
            /\ g' = g
    /\ UNCHANGED <<op, d_text, d_result, settings, provider, registry, chat, direct, session, last_debug_info, now>>

\* _analyze_query from the provider's reply, or from its exception, to the return
AnalyzeResume ==
    /\ wf.pc = "await_llm"
    /\ wf.node = "analyze_query"
    /\ g.pc \in {"returned", "raised"}
    /\ st' = IF g.pc = "returned"
             THEN AnalyzeStore(st, CategoryOfReply(g.result), REASON_LLM)
             ELSE AnalyzeOnError(st)
    /\ wf' = [wf EXCEPT !.pc = "node_done", !.llm_results = Append(@, g.pc)]
    /\ UNCHANGED <<op, d_text, d_result, settings, provider, registry, chat, direct, session, last_debug_info, g, now>>

\* an agent node up to its return or to the await of the provider inside run_v2
AgentStart ==
    /\ wf.pc = "node_start"
    /\ wf.node \in AgentNodes
    /\ LET name == AgentOfNode(wf.node) IN
       IF AgentMissing(name)
       THEN /\ st' = NodeAgentMissing(st)
            /\ wf' = [wf EXCEPT !.pc = "node_done"]
            /\ g' = g
       ELSE IF is_configured(provider)
       THEN /\ g' = AwaitGenerate(name)
            /\ wf' = [wf EXCEPT !.pc = "await_llm", !.agents = Append(@, name),
                                !.llm_calls = Append(@, name)]
            /\ st' = st
       ELSE /\ st' = NodeAgentDone(st, AgentApology(name, st.user_query))
            /\ wf' = [wf EXCEPT !.pc = "node_done", !.agents = Append(@, name)]
            /\ g' = g
    /\ UNCHANGED <<op, d_text, d_result, settings, provider, registry, chat, direct, session, last_debug_info, now>>

\* run_v2 from the provider's reply, or from its exception, to the node's return
AgentResume ==
    /\ wf.pc = "await_llm"
    /\ wf.node \in AgentNodes
    /\ g.pc \in {"returned", "raised"}
    /\ st' = IF g.pc = "returned"
             THEN NodeAgentDone(st, g.result)
             ELSE NodeAgentDone(st, AgentErrorContent(AgentOfNode(wf.node)))
    /\ wf' = [wf EXCEPT !.pc = "node_done", !.llm_results = Append(@, g.pc)]
    /\ UNCHANGED <<op, d_text, d_result, settings, provider, registry, chat, direct, session, last_debug_info, g, now>>

\* _process_tool_query, with the await of async_execute_tool inside it
ToolNode ==
    /\ wf.pc = "node_start"
    /\ wf.node = "process_tool"
    /\ IF Truthy(ToolOfState(st))
       THEN \E h \in HandlersFor(Lower(ToolOfState(st))) :
              IF Late(ToolSeconds(h, ToolTimeoutSeconds)) THEN Abandon
              ELSE /\ st' = ProcessTool(st, h)
                   /\ wf' = [wf EXCEPT !.pc = "node_done", !.handlers = Append(@, h),
                                       !.tool_args = Append(@, ToolArgOfState(st))]
                   /\ now' = now + ToolSeconds(h, ToolTimeoutSeconds)
                   /\ UNCHANGED <<op, d_text, d_result, settings, provider, registry, chat, direct, session, last_debug_info, g>>
       ELSE /\ st' = ProcessTool(st, "none")
            /\ wf' = [wf EXCEPT !.pc = "node_done"]
            /\ UNCHANGED <<op, d_text, d_result, settings, provider, registry, chat, direct, session, last_debug_info, g, now>>

\* generate of a provider that is not GeminiProvider
StubGenerate ==
    /\ provider.kind = "stub"
    /\ g.pc = "stub"
    /\ wf.pc = "await_llm"
    /\ \E o \in StubOutcomes :
         IF o.kind = "hang" THEN Abandon
         ELSE /\ g' = IF o.kind = "text"
                      THEN [g EXCEPT !.pc = "returned", !.result = o.text]
                      ELSE [g EXCEPT !.pc = "raised", !.last_err = o.err]
              /\ UNCHANGED <<op, d_text, d_result, settings, provider, registry, chat, direct, session, last_debug_info, wf, st, now>>

\* the compiled graph moves on from a finished node
GraphAdvance ==
    /\ wf.pc = "node_done"
    /\ LET next == NextNode(wf.node, st) IN
       wf' = IF next = END THEN [wf EXCEPT !.pc = "graph_end"]
             ELSE IF next = "<raise>" THEN [wf EXCEPT !.pc = "graph_raised"]
             ELSE [wf EXCEPT !.pc = "node_start", !.node = next,
                             !.visited = Append(@, next)]
    /\ checkpoint' = IF Durable(st) THEN <<st>> ELSE checkpoint
    /\ UNCHANGED <<op, d_text, d_result, settings, provider, registry, chat, direct, parked, observed, last_debug_info, g, st, now>>

\* the caller reads get_last_debug_info() as soon as process_query has
\* returned, with no await in between
GetLastDebugInfo ==
    /\ op \in SessionOps
    /\ wf.pc = "returned"
    /\ wf' = [wf EXCEPT !.pc = "observed"]
    /\ observed' = Append(observed,
         [ call |-> wf.call, overlapped |-> wf.overlapped, info0 |-> wf.info0,
           ret |-> wf.ret, info |-> get_last_debug_info,
           timed_out |-> now >= Deadline, result |-> st ])
    /\ UNCHANGED <<op, d_text, d_result, settings, provider, registry, chat, direct, checkpoint, parked, last_debug_info, g, st, now>>

\* the event loop runs another call's coroutine while this one waits
Yield ==
    /\ op = "session"
    /\ IF InFlight(wf)
       THEN /\ wf.pc \in AwaitPoints
            /\ parked # <<>> \/ CallsStarted < MaxCalls
            /\ parked' = <<[wf |-> wf, st |-> st, g |-> g, now |-> now]>>
       ELSE /\ parked # <<>>
            /\ parked' = <<>>
    /\ IF parked = <<>>
       THEN /\ wf' = WfIdle
            /\ st' = InitialState(<<>>, None, FALSE)
            /\ g' = GenIdle
            /\ now' = 0
       ELSE /\ wf' = parked[1].wf
            /\ st' = parked[1].st
            /\ g' = parked[1].g
            /\ now' = parked[1].now
    /\ UNCHANGED <<op, d_text, d_result, settings, provider, registry, chat, direct, checkpoint, observed, last_debug_info>>

\* lines 203-232 after ainvoke returned or raised
ProcessQueryReturn ==
    /\ wf.pc \in {"graph_end", "graph_raised"}
    /\ wf' = [wf EXCEPT !.pc = "returned",
                        !.ret = IF wf.pc = "graph_raised" THEN MSG_SYSTEM_ERROR
                                ELSE ReturnValue(st)]
    /\ last_debug_info' = IF wf.pc = "graph_raised" THEN last_debug_info
                          ELSE DebugInfoAfter(st, last_debug_info)
    /\ UNCHANGED <<op, d_text, d_result, settings, provider, registry, chat, direct, session, g, st, now>>

\* lines 204-206: wait_for raised asyncio.TimeoutError at the deadline
WorkflowTimeout ==
    /\ wf.pc = "cancelled"
    /\ wf' = [wf EXCEPT !.pc = "returned", !.ret = TimeoutValue(st)]
    /\ UNCHANGED <<op, d_text, d_result, settings, provider, registry, chat, direct, session, last_debug_info, g, st, now>>

----------------------------------------------------------------------------
(* LangGraphService.stream_events *)

\* _truncate keeps this many characters of a str
TruncateLimit == 500

\* a str value of an event: what it says, how long it is, whether _truncate
\* has cut it; a dict value; an object that is neither
StrValue(text, len) == [kind |-> "str", text |-> text, len |-> len, cut |-> FALSE]

DictValue(items) == [kind |-> "dict", items |-> items]

ObjValue(repr_len) == [kind |-> "obj", repr_len |-> repr_len]

\* _truncate, lines 288-291: only a str is touched
Truncate(v) ==
    IF v.kind = "str" /\ v.len > TruncateLimit
    THEN [v EXCEPT !.len = TruncateLimit + 3, !.cut = TRUE]
    ELSE v

\* line 297: the keys dropped from an event
SensitiveKeys == {"state", "input", "inputs", "context", "config"}

\* lines 293-301: the payload made of one engine event
Sanitize(ev) ==
    IF ev.kind = "dict"
    THEN [k \in DOMAIN ev.items \ SensitiveKeys |-> Truncate(ev.items[k])]
    ELSE [k \in {"data"} |-> Truncate(StrValue("str(ev)", ev.repr_len))]

ValueTruthy(v) ==
    IF v.kind = "str" THEN v.len > 0
    ELSE IF v.kind = "dict" THEN DOMAIN v.items # {}
    ELSE TRUE

\* lines 278-286: ev.get("event") or ev.get("type") or ev.get("event_type")
\* or "event"; .get on an object that is not a dict raises
EventTypeOf(ev) ==
    LET has(k) == ev.kind = "dict" /\ k \in DOMAIN ev.items /\ ValueTruthy(ev.items[k]) IN
    IF has("event") THEN ev.items["event"]
    ELSE IF has("type") THEN ev.items["type"]
    ELSE IF has("event_type") THEN ev.items["event_type"]
    ELSE StrValue("event", 5)

\* lines 303-307: the event yielded for one engine event
\* _now_ms (lines 543-544), for a clock that counts seconds
NowMs(seconds) == seconds * 1000

StreamEvent(ev) ==
    [event_type |-> EventTypeOf(ev), ts |-> NowMs(now), payload |-> Sanitize(ev)]

\* lines 269-274: the synthetic event yielded before the run starts
BreakpointEvent ==
    [event_type |-> StrValue("breakpoint_hit", 14),
     ts |-> NowMs(now),
     payload |-> [k \in {"node", "note"} |->
                    IF k = "node" THEN StrValue("analyze_query", 13)
                    ELSE StrValue("pre-node breakpoint", 19)]]

\* values found in the events of astream_events: short and long strings, and
\* the data dict of a run event, which holds the run's input or output
LeafValues ==
    { StrValue("on_chain_start", 14), StrValue("text", TruncateLimit),
      StrValue("text", TruncateLimit + 1), StrValue("", 0) }

DataValues ==
    { DictValue([k \in K |-> v]) :
        K \in {{"input"}, {"output"}, {"input", "output"}, {"chunk"}},
        v \in {StrValue("text", 3), StrValue("text", TruncateLimit + 1)} }

ValuesFor(k) == IF k = "data" THEN DataValues \cup LeafValues ELSE LeafValues

EventKeySets ==
    { {"event", "name", "data"}, {"event", "data", "input"}, {"type", "state", "config"},
      {"event_type", "context", "inputs"}, {"name"} }

\* what the async iterator of astream_events hands over: dicts, or objects
\* that are not dicts
EngineEvents ==
    UNION { { DictValue(f) : f \in { h \in [K -> DataValues \cup LeafValues] :
                                       \A k \in K : h[k] \in ValuesFor(k) } } :
            K \in EventKeySets }
    \cup { ObjValue(3), ObjValue(TruncateLimit + 1) }

StreamIdle ==
    [pc |-> "idle", debug |-> FALSE, n |-> 0, out |-> <<>>, ended |-> "no", raised |-> FALSE]

StreamEndState_Propagate(s, how) ==
    [s EXCEPT !.pc = "done", !.ended = how, !.raised = (how = "raised")]

\* the generator finishes: the loop ran out of events (line 276), or an
\* exception reached the handler of lines 308-310, which logs it and returns
StreamEndState(s, how) ==
    [s EXCEPT !.pc = "done", !.ended = how, !.raised = FALSE]

\* lines 248-274: the call up to the loop over the engine's events
CallStreamEvents ==
    /\ op = "stream"
    /\ stream.pc = "idle"
    /\ \E debug \in BOOLEAN :
         stream' = [stream EXCEPT !.pc = "streaming", !.debug = debug,
                                  !.out = IF settings.debug_breakpoints /\ debug
                                          THEN <<BreakpointEvent>> ELSE <<>>]
    /\ UNCHANGED <<op, d_text, d_result, settings, provider, registry, chat, tool_call,
                   route_call, debug_call, session, last_debug_info, g, wf, st, now>>

\* lines 276-307: one turn of the loop
StreamNext ==
    /\ op = "stream"
    /\ stream.pc = "streaming"
    /\ stream.n < MaxEvents
    /\ \E ev \in EngineEvents :
         stream' = [stream EXCEPT !.n = @ + 1, !.out = <<StreamEvent(ev)>>]
    /\ UNCHANGED <<op, d_text, d_result, settings, provider, registry, chat, tool_call,
                   route_call, debug_call, session, last_debug_info, g, wf, st, now>>

\* lines 276 and 308-310: the iterator is exhausted, or it raised and the
\* exception was logged
StreamEnd ==
    /\ op = "stream"
    /\ stream.pc = "streaming"
    /\ \E how \in {"exhausted", "raised"} : stream' = StreamEndState(stream, how)
    /\ UNCHANGED <<op, d_text, d_result, settings, provider, registry, chat, tool_call,
                   route_call, debug_call, session, last_debug_info, g, wf, st, now>>

----------------------------------------------------------------------------
(* app/api/v1/chat.py: websocket_chat *)

\* models/chat.py: ChatMessage.content is a str of min_length 1 and
\* max_length 4000
MaxContentLength == 4000

ValidContent(len) == 1 <= len /\ len <= MaxContentLength

\* client messages received on one connection
MaxMessages == 2

\* lengths of the text frames a client sends, and of the answers the normal
\* run returns (process_query never returns an empty string)
DataLengths == {1, MaxContentLength + 1}

ResponseLengths == {1, MaxContentLength, MaxContentLength + 1}

\* the fixed apology of ChatService.process_message (line 73)
ApologyLength == 37

WsIdle ==
    [ pc |-> "idle", streaming |-> FALSE, n |-> 0, data_len |-> 0,
      response |-> <<>>, tasks |-> <<>>, sent |-> <<>>, runs |-> <<>> ]

\* the stream tasks created for earlier or current messages that have not
\* finished
RunningTasks(w) == { i \in 1..Len(w.tasks) : w.tasks[i].pc # "done" }

WsUnchanged ==
    UNCHANGED <<op, d_text, d_result, settings, provider, registry, hist, direct,
                session, last_debug_info, g, wf, st, now>>

\* lines 145-163: accept, read the streaming toggle, send the status frame
WsConnect ==
    /\ op = "websocket"
    /\ ws.pc = "idle"
    /\ \E debug_streaming_enabled \in BOOLEAN :
         ws' = [ws EXCEPT !.pc = "receive", !.streaming = debug_streaming_enabled]
    /\ WsUnchanged

\* lines 170-196: receive_text returns a frame and, with streaming enabled,
\* the stream task of this message is created; or the client is gone
WsReceive ==
    /\ op = "websocket"
    /\ ws.pc = "receive"
    /\ \/ /\ ws.n < MaxMessages
          /\ \E len \in DataLengths :
               ws' = [ws EXCEPT
                        !.pc = "process", !.n = @ + 1, !.data_len = len,
                        !.response = <<>>,
                        !.tasks = IF ws.streaming
                                  THEN Append(@, [msg |-> ws.n + 1, pc |-> "created",
                                                  events |-> 0])
                                  ELSE @]
       \/ ws' = [ws EXCEPT !.pc = "closed"]
    /\ WsUnchanged

\* lines 199-202 with ChatService.process_message: the user message is
\* validated and stored, then the engine runs on a WorkflowState of its own
\* (no thread id, debug off); a message ChatMessage rejects is answered with
\* the fixed apology without a run
WsProcessMessage ==
    /\ op = "websocket"
    /\ ws.pc = "process"
    /\ IF ValidContent(ws.data_len)
       THEN \E len \in ResponseLengths :
              ws' = [ws EXCEPT
                       !.pc = "respond",
                       !.response = <<[len |-> len, from |-> "normal", msg |-> ws.n]>>,
                       !.runs = Append(@, [by |-> "normal", msg |-> ws.n,
                                           thread_id |-> None, debug |-> FALSE])]
       ELSE ws' = [ws EXCEPT
                     !.pc = "respond",
                     !.response = <<[len |-> ApologyLength, from |-> "apology",
                                     msg |-> ws.n]>>]
    /\ WsUnchanged

\* lines 205-215: build the assistant ChatMessage, store it, send it; the
\* ChatMessage constructor raises when the content is longer than it allows
WsRespond ==
    /\ op = "websocket"
    /\ ws.pc = "respond"
    /\ IF ValidContent(ws.response[1].len)
       THEN ws' = [ws EXCEPT
                     !.pc = IF ws.streaming THEN "await_stream" ELSE "receive",
                     !.sent = Append(@, [type |-> "message", msg |-> ws.n,
                                         from |-> ws.response[1].from])]
       ELSE ws' = [ws EXCEPT !.pc = "error"]
    /\ WsUnchanged

\* lines 218-223: await stream_task
WsAwaitStream ==
    /\ op = "websocket"
    /\ ws.pc = "await_stream"
    /\ \A i \in 1..Len(ws.tasks) : ws.tasks[i].msg = ws.n => ws.tasks[i].pc = "done"
    /\ ws' = [ws EXCEPT !.pc = "receive"]
    /\ WsUnchanged

\* lines 228-240: the handler of any other exception sends an error frame
\* and the loop goes on, or the send fails and the loop is left
WsError ==
    /\ op = "websocket"
    /\ ws.pc = "error"
    /\ \/ ws' = [ws EXCEPT !.pc = "receive",
                            !.sent = Append(@, [type |-> "error", msg |-> ws.n,
                                                from |-> "handler"])]
       \/ ws' = [ws EXCEPT !.pc = "closed"]
    /\ WsUnchanged

\* _stream_debug_events (lines 176-194), run by the event loop while the
\* handler waits: stream_events starts a run on a WorkflowState of its own
\* (thread id = session id, debug on), each event is sent as a debug_event
\* frame, and the task ends when the stream does
WsStreamStep ==
    /\ op = "websocket"
    /\ ws.pc \in {"receive", "process", "respond", "await_stream", "error"}
    /\ \E i \in RunningTasks(ws) :
         LET task == ws.tasks[i] IN
         IF task.pc = "created"
         THEN ws' = [ws EXCEPT
                       !.tasks[i].pc = "running",
                       !.runs = Append(@, [by |-> "stream", msg |-> task.msg,
                                           thread_id |-> <<"s", "1">>, debug |-> TRUE])]
         ELSE \/ /\ task.events < MaxEvents
                 /\ ws' = [ws EXCEPT
                              !.tasks[i].events = @ + 1,
                              !.sent = Append(@, [type |-> "debug_event", msg |-> task.msg,
                                                  from |-> "stream"])]
              \/ ws' = [ws EXCEPT !.tasks[i].pc = "done"]
    /\ WsUnchanged

----------------------------------------------------------------------------
(* app/services/chat_service.py and app/repositories/chat_history.py:      *)
(* the in-memory chat histories                                            *)

\* session ids the callers use
SessionIds == {"s1", "s2"}

\* hours the clock of the store may reach, and messages added to it
MaxClock == 3

MaxAdds == 3

\* values of max_age_hours handed to cleanup
AgeChoices == 0..2

\* dict.get(session_id): <<>> is None, <<h>> the ChatHistory h
NoSessions == [sid \in SessionIds |-> <<>>]

\* models/chat.py ChatHistory(session_id=..., messages=[]): created_at and
\* last_active default to datetime.now()
NewChatHistory(session_id, clock) ==
    [session_id |-> session_id, messages |-> <<>>, last_active |-> clock]

\* ChatService._get_or_create_session
GetOrCreateSession(sessions, session_id, clock) ==
    IF sessions[session_id] = <<>>
    THEN [sessions EXCEPT ![session_id] = <<NewChatHistory(session_id, clock)>>]
    ELSE sessions

AddMessageToHistory_Prepend(sessions, message, clock) ==
    LET created == GetOrCreateSession(sessions, message.session_id, clock)
        chat_history == created[message.session_id][1]
    IN [created EXCEPT ![message.session_id] =
            <<[chat_history EXCEPT !.messages = <<message>> \o @,
                              !.last_active = message.timestamp]>>]

\* ChatService.add_message_to_history
AddMessageToHistory(sessions, message, clock) ==
    LET created == GetOrCreateSession(sessions, message.session_id, clock)
        chat_history == created[message.session_id][1]
    IN [created EXCEPT ![message.session_id] =
            <<[chat_history EXCEPT !.messages = Append(@, message),
                              !.last_active = message.timestamp]>>]

CleanupOldSessions_Inclusive(sessions, max_age_hours, clock) ==
    LET cutoff_time == clock - max_age_hours
        sessions_to_remove ==
            { sid \in SessionIds : /\ sessions[sid] # <<>>
                                   /\ sessions[sid][1].last_active <= cutoff_time }
    IN [ sessions |-> [sid \in SessionIds |->
                          IF sid \in sessions_to_remove THEN <<>> ELSE sessions[sid]],
         ret |-> Cardinality(sessions_to_remove) ]

\* ChatService.cleanup_old_sessions: the sessions left and the value returned
CleanupOldSessions(sessions, max_age_hours, clock) ==
    LET cutoff_time == clock - max_age_hours
        sessions_to_remove ==
            { sid \in SessionIds : /\ sessions[sid] # <<>>
                                   /\ sessions[sid][1].last_active < cutoff_time }
    IN [ sessions |-> [sid \in SessionIds |->
                          IF sid \in sessions_to_remove THEN <<>> ELSE sessions[sid]],
         ret |-> Cardinality(sessions_to_remove) ]

\* InMemoryChatHistoryRepository.create_if_absent
CreateIfAbsent(store, session_id, clock) ==
    IF store[session_id] = <<>>
    THEN [store EXCEPT ![session_id] = <<NewChatHistory(session_id, clock)>>]
    ELSE store

\* InMemoryChatHistoryRepository.add_message
RepoAddMessage(store, message, clock) ==
    LET created == CreateIfAbsent(store, message.session_id, clock)
        history == created[message.session_id][1]
    IN [created EXCEPT ![message.session_id] =
            <<[history EXCEPT !.messages = Append(@, message),
                              !.last_active = message.timestamp]>>]

\* InMemoryChatHistoryRepository.cleanup
RepoCleanup(store, max_age_hours, clock) ==
    LET cutoff == clock - max_age_hours
        to_remove == { sid \in SessionIds : /\ store[sid] # <<>>
                                            /\ store[sid][1].last_active < cutoff }
    IN [ sessions |-> [sid \in SessionIds |->
                          IF sid \in to_remove THEN <<>> ELSE store[sid]],
         ret |-> Cardinality(to_remove) ]

\* the two stores of the code base
HistoryImpls == {"ChatService", "InMemoryChatHistoryRepository"}

NoHistOp == [kind |-> "none", session_id |-> "", id |-> 0, max_age_hours |-> 0]

HistIdle ==
    [ impl |-> "ChatService", sessions |-> NoSessions, clock |-> 0, adds |-> 0,
      ret |-> <<>>, last |-> NoHistOp ]

\* a caller adds a message: ChatMessage(...) stamps it with datetime.now()
\* unless the caller hands a timestamp of its own
HistAdd ==
    /\ op = "history"
    /\ hist.adds < MaxAdds
    /\ \E sid \in SessionIds, ts \in {0, hist.clock} :
         LET message == [id |-> hist.adds + 1, session_id |-> sid, timestamp |-> ts] IN
         hist' = [hist EXCEPT
                    !.sessions = IF hist.impl = "ChatService"
                                 THEN AddMessageToHistory(@, message, hist.clock)
                                 ELSE RepoAddMessage(@, message, hist.clock),
                    !.adds = @ + 1,
                    !.last = [kind |-> "add", session_id |-> sid, id |-> message.id,
                              max_age_hours |-> 0]]
    /\ UNCHANGED <<op, d_text, d_result, settings, provider, registry, ws, direct, session, last_debug_info, g, wf, st, now>>

\* a caller runs the cleanup
HistCleanup ==
    /\ op = "history"
    /\ \E h \in AgeChoices :
         LET done == IF hist.impl = "ChatService"
                     THEN CleanupOldSessions(hist.sessions, h, hist.clock)
                     ELSE RepoCleanup(hist.sessions, h, hist.clock)
         IN hist' = [hist EXCEPT !.sessions = done.sessions, !.ret = <<done.ret>>,
                                 !.last = [kind |-> "cleanup", session_id |-> "", id |-> 0,
                                           max_age_hours |-> h]]
    /\ UNCHANGED <<op, d_text, d_result, settings, provider, registry, ws, direct, session, last_debug_info, g, wf, st, now>>

\* an hour passes
HistTick ==
    /\ op = "history"
    /\ hist.clock < MaxClock
    /\ hist' = [hist EXCEPT !.clock = @ + 1, !.last = NoHistOp]
    /\ UNCHANGED <<op, d_text, d_result, settings, provider, registry, ws, direct, session, last_debug_info, g, wf, st, now>>

----------------------------------------------------------------------------
(* specifications *)

InitEngine ==
    /\ d_text = None
    /\ d_result = <<>>
    /\ g = GenIdle
    /\ wf = WfIdle
    /\ st = InitialState(<<>>, None, FALSE)
    /\ last_debug_info = NoDebugInfo
    /\ tool_call = ToolCallIdle
    /\ route_call = <<>>
    /\ stream = StreamIdle
    /\ debug_call = <<>>
    /\ checkpoint = <<>>
    /\ parked = <<>>
    /\ observed = <<>>
    /\ now = 0

InitCommon ==
    /\ InitEngine
    /\ ws = WsIdle
    /\ hist = HistIdle

\* a service built by LangGraphService(llm_provider), about to serve one call
InitProcessQuery ==
    /\ op = "process_query"
    /\ settings \in { [DefaultSettings EXCEPT !.workflow_invoke_timeout_seconds = t] :
                        t \in WorkflowTimeoutChoices }
    /\ provider \in GeminiProviders \cup StubProviders
    /\ registry \in Registries
    /\ InitCommon

InitDetect ==
    /\ op = "detect"
    /\ settings = DefaultSettings
    /\ provider = GeminiProvider_init(FALSE, FALSE, FALSE)
    /\ registry = AgentNames
    /\ InitCommon

\* values of query_type handed to the conditional edge: the four the
\* classifier writes, the initial "", and one no branch is named after
RouteInputs == {"manufacturing", "python", "general", "tool", "", "unknown"}

\* the conditional edge out of analyze_query, applied to a state
CallRoute ==
    /\ op = "route"
    /\ route_call = <<>>
    /\ \E qt \in RouteInputs, tn \in {None, T_sql}, q \in {Q_plain, Q_sql} :
         LET state == [InitialState(q, None, FALSE) EXCEPT !.query_type = qt,
                                                          !.tool_name = tn]
         IN route_call' = <<[state |-> state,
                             key   |-> RouteQuery(state),
                             next  |-> NextNode(EntryPoint, state)]>>
    /\ UNCHANGED <<op, d_text, d_result, settings, provider, registry, chat, tool_call,
                   stream, debug_call, session, last_debug_info, g, wf, st, now>>

InitStream ==
    /\ op = "stream"
    /\ settings \in { [DefaultSettings EXCEPT !.debug_breakpoints = b] : b \in BOOLEAN }
    /\ provider = GeminiProvider_init(FALSE, FALSE, FALSE)
    /\ registry = AgentNames
    /\ InitCommon

\* an engine with no API key that serves several calls, in a deployment with
\* or without the checkpointer
InitSession ==
    /\ op = "session"
    /\ settings \in { [DefaultSettings EXCEPT !.workflow_invoke_timeout_seconds = t,
                                               !.enable_checkpointer = c] :
                        t \in WorkflowTimeoutChoices, c \in BOOLEAN }
    /\ provider = GeminiProvider_init(FALSE, FALSE, FALSE)
    /\ registry \in {AgentNames, AgentNames \ {"python"}}
    /\ InitCommon

\* events a decision_trace may hold: the three types the engine appends and
\* one it does not, with a reason, an empty reason, or none
TraceEventChoices ==
    { TraceEvent(type, None, reason) :
        type \in RelevantTypes \cup {"other"},
        reason \in {None, <<>>, REASON_LLM, REASON_EXPLICIT_TOOL} }

DebugTraces == UNION { [1..n -> TraceEventChoices] : n \in 0..MaxTrace }

\* _build_debug_info called on a state
CallBuildDebugInfo ==
    /\ op = "build_debug_info"
    /\ debug_call = <<>>
    /\ \E qt \in RouteInputs, tn \in {None, T_sql}, trace \in DebugTraces :
         LET state == [InitialState(Q_plain, None, TRUE) EXCEPT
                          !.query_type = qt, !.tool_name = tn, !.decision_trace = trace]
         IN debug_call' = <<[state |-> state, info |-> BuildDebugInfo(state)]>>
    /\ UNCHANGED <<op, d_text, d_result, settings, provider, registry, chat, tool_call,
                   route_call, stream, session, last_debug_info, g, wf, st, now>>

InitBuildDebugInfo ==
    /\ op = "build_debug_info"
    /\ settings = DefaultSettings
    /\ provider = GeminiProvider_init(FALSE, FALSE, FALSE)
    /\ registry = AgentNames
    /\ InitCommon

InitRoute ==
    /\ op = "route"
    /\ settings = DefaultSettings
    /\ provider = GeminiProvider_init(FALSE, FALSE, FALSE)
    /\ registry = AgentNames
    /\ InitCommon

InitTool ==
    /\ op = "tool"
    /\ settings = DefaultSettings
    /\ provider = GeminiProvider_init(FALSE, FALSE, FALSE)
    /\ registry = AgentNames
    /\ InitCommon

\* a GeminiProvider built by its constructor, about to serve one generate call
InitGenerate ==
    /\ op = "generate"
    /\ settings \in SettingsChoices
    /\ provider \in GeminiProviders
    /\ registry = AgentNames
    /\ InitCommon

Init == InitProcessQuery \/ InitDetect

Next ==
    \/ CallDetect
    \/ CallProcessQuery
    \/ AnalyzeQuery
    \/ AnalyzeResume
    \/ AgentStart
    \/ AgentResume
    \/ ToolNode
    \/ StubGenerate
    \/ GenPrimary
    \/ GenBackoff
    \/ GenFallback
    \/ GraphAdvance
    \/ ProcessQueryReturn
    \/ WorkflowTimeout

Spec == Init /\ [][Next]_vars

NextGenerate ==
    \/ CallGenerate
    \/ GenPrimary
    \/ GenBackoff
    \/ GenFallback

SpecGenerate == InitGenerate /\ [][NextGenerate]_vars

\* the same call when every await in generate ends: each model call ends by
\* reply, exception or the per-call timeout of wait_for, and asyncio.sleep
\* returns after its delay
FairGenerate ==
    /\ WF_vars(CallGenerate)
    /\ WF_vars(GenPrimary)
    /\ WF_vars(GenBackoff)
    /\ WF_vars(GenFallback)

SpecGenerateLive == InitGenerate /\ [][NextGenerate]_vars /\ FairGenerate

\* several calls of process_query on one engine, one after another or
\* interleaved at their awaits
NextSession ==
    \/ SessionCall
    \/ AnalyzeQuery
    \/ AgentStart
    \/ ToolNode
    \/ GraphAdvance
    \/ ProcessQueryReturn
    \/ WorkflowTimeout
    \/ GetLastDebugInfo
    \/ Yield

SpecSession == InitSession /\ [][NextSession]_vars

\* an engine with no API key that serves the turns of conversations one
\* after another, in a deployment with or without the checkpointer
InitTurns ==
    /\ op = "turns"
    /\ settings \in { [DefaultSettings EXCEPT !.workflow_invoke_timeout_seconds = t,
                                               !.enable_checkpointer = c] :
                        t \in WorkflowTimeoutChoices, c \in BOOLEAN }
    /\ provider = GeminiProvider_init(FALSE, FALSE, FALSE)
    /\ registry \in {AgentNames, AgentNames \ {"python"}}
    /\ InitCommon

NextTurns ==
    \/ SessionCall
    \/ AnalyzeQuery
    \/ AgentStart
    \/ ToolNode
    \/ GraphAdvance
    \/ ProcessQueryReturn
    \/ WorkflowTimeout
    \/ GetLastDebugInfo

SpecTurns == InitTurns /\ [][NextTurns]_vars

\* an empty store of either kind
InitHistory ==
    /\ op = "history"
    /\ settings = DefaultSettings
    /\ provider = GeminiProvider_init(FALSE, FALSE, FALSE)
    /\ registry = AgentNames
    /\ InitEngine
    /\ ws = WsIdle
    /\ hist \in { [HistIdle EXCEPT !.impl = i] : i \in HistoryImpls }

NextHistory ==
    \/ HistAdd
    \/ HistCleanup
    \/ HistTick

SpecHistory == InitHistory /\ [][NextHistory]_vars

InitWebSocket ==
    /\ op = "websocket"
    /\ settings = DefaultSettings
    /\ provider = GeminiProvider_init(FALSE, FALSE, FALSE)
    /\ registry = AgentNames
    /\ InitCommon

NextWebSocket ==
    \/ WsConnect
    \/ WsReceive
    \/ WsProcessMessage
    \/ WsRespond
    \/ WsAwaitStream
    \/ WsError
    \/ WsStreamStep

SpecWebSocket == InitWebSocket /\ [][NextWebSocket]_vars

\* one stream_events call
NextStream ==
    \/ CallStreamEvents
    \/ StreamNext
    \/ StreamEnd

SpecStream == InitStream /\ [][NextStream]_vars

\* the same call when the consumer keeps iterating and the run behind
\* astream_events ends: its iterator is exhausted or raises after finitely
\* many events
SpecStreamLive ==
    InitStream /\ [][NextStream]_vars
    /\ WF_vars(CallStreamEvents) /\ WF_vars(StreamEnd)

\* direct calls of the tool executor, of the routing decision and of
\* _build_debug_info
InitDirect == InitTool \/ InitRoute \/ InitBuildDebugInfo

NextDirect ==
    \/ CallAsyncExecuteTool
    \/ ToolAwaitDone
    \/ ToolHandlerLate
    \/ CallRoute
    \/ CallBuildDebugInfo

SpecDirect == InitDirect /\ [][NextDirect]_vars

----------------------------------------------------------------------------
(* Properties *)

\* the steps of a process_query call in progress
ProcessQueryStep ==
    \/ GenPrimary \/ GenBackoff \/ GenFallback
    \/ AnalyzeQuery \/ AnalyzeResume \/ AgentStart \/ AgentResume \/ ToolNode
    \/ StubGenerate \/ GraphAdvance \/ ProcessQueryReturn \/ WorkflowTimeout

ProcessQueryReturned == op = "process_query" /\ wf.pc = "returned"

\* the deadline cut the run short
DeadlineHit == now >= Deadline

\* an exception is on its way up: the provider raised, the graph raised, or
\* the deadline cancelled the run
ExceptionInFlight ==
    \/ wf.pc = "await_llm" /\ g.pc = "raised"
    \/ wf.pc \in {"graph_raised", "cancelled"}

\* C1: process_query always ends by returning a non-empty string to its
\* caller, whatever the provider does (text, blank text, exception, hang past
\* the deadline) and whichever branch runs: what it returns is a str that is
\* not empty, it never raises, and every exception in flight inside the call
\* is caught by a step of the call.
C1_AlwaysNonEmptyString ==
    op = "process_query" =>
        /\ wf.pc = "returned" => (wf.ret # None /\ wf.ret # <<>> /\ ~wf.raised)
        /\ ExceptionInFlight => ENABLED ProcessQueryStep

\* a provider answered the agent's call with blank text and the engine
\* substituted its fixed message
C1_Witness ==
    /\ ProcessQueryReturned
    /\ provider.kind = "stub"
    /\ st.query_type = "python"
    /\ g.result = R_blank
    /\ wf.ret = MSG_EMPTY_RESPONSE

----------------------------------------------------------------------------

\* the prefixes as the claim lists them, with the canonical tool of each
ClaimPrefixes ==
    { [prefix |-> S_sql,              tool |-> T_sql],
      [prefix |-> S_web,              tool |-> T_web],
      [prefix |-> S_search,           tool |-> T_web],
      [prefix |-> S_tool \o S_sql,    tool |-> T_sql],
      [prefix |-> S_tool \o S_web,    tool |-> T_web],
      [prefix |-> S_tool \o S_search, tool |-> T_web] }

HasPrefix(q, p) == StartsWith(Lower(Strip(q)), p)

TextAfter(q, p) == Strip(SliceFrom(Strip(q), Len(p)))

\* the analyze_query node has run on the state
Analyzed == op = "process_query" /\ st.query_type # ""

DetectReturned == op = "detect" /\ d_result # <<>>

\* C2 (as claimed): a query whose trimmed, case-folded form starts with sql:,
\* web:, search:, tool:sql:, tool:web: or tool:search: is classified as tool
\* with the canonical tool name and the trimmed text after the prefix; for any
\* other query detect_tool_request returns (None, None).
C2_Original ==
    /\ Analyzed =>
         \A p \in ClaimPrefixes : HasPrefix(st.user_query, p.prefix) =>
            /\ st.query_type = "tool"
            /\ st.tool_name = p.tool
            /\ st.tool_input = TextAfter(st.user_query, p.prefix)
    /\ DetectReturned =>
         /\ \A p \in ClaimPrefixes : HasPrefix(d_text, p.prefix) =>
                d_result = <<p.tool, TextAfter(d_text, p.prefix)>>
         /\ (\A p \in ClaimPrefixes : ~HasPrefix(d_text, p.prefix)) =>
                d_result = <<None, None>>

\* the generic form with optional whitespace between "tool:" and the
\* sub-prefix: the sub-prefix that the text after "tool:" starts with
GenericForm(q, p) ==
    /\ HasPrefix(q, S_tool)
    /\ StartsWith(Lower(LStrip(SliceFrom(Strip(q), Len(S_tool)))), p)

GenericTextAfter(q, p) ==
    Strip(SliceFrom(LStrip(SliceFrom(Strip(q), Len(S_tool))), Len(p)))

SubPrefixes ==
    { [prefix |-> S_sql, tool |-> T_sql], [prefix |-> S_web, tool |-> T_web],
      [prefix |-> S_search, tool |-> T_web] }

\* C2 (amended): the prefixes are sql:, web:, search:, and tool: followed by
\* optional whitespace and one of sql:, web:, search:.  A query with such a
\* prefix is classified as tool with the canonical tool name and the trimmed
\* text after the prefix; for any other query detect_tool_request returns
\* (None, None).
C2_Amended ==
    /\ Analyzed =>
         \A p \in SubPrefixes :
            /\ HasPrefix(st.user_query, p.prefix) =>
                 /\ st.query_type = "tool"
                 /\ st.tool_name = p.tool
                 /\ st.tool_input = TextAfter(st.user_query, p.prefix)
            /\ GenericForm(st.user_query, p.prefix) =>
                 /\ st.query_type = "tool"
                 /\ st.tool_name = p.tool
                 /\ st.tool_input = GenericTextAfter(st.user_query, p.prefix)
    /\ DetectReturned =>
         /\ \A p \in SubPrefixes :
              /\ HasPrefix(d_text, p.prefix) =>
                    d_result = <<p.tool, TextAfter(d_text, p.prefix)>>
              /\ GenericForm(d_text, p.prefix) =>
                    d_result = <<p.tool, GenericTextAfter(d_text, p.prefix)>>
         /\ (\A p \in SubPrefixes :
                ~HasPrefix(d_text, p.prefix) /\ ~GenericForm(d_text, p.prefix)) =>
                d_result = <<None, None>>

\* the classifier has routed "Tool:web: x" to the web tool with argument "x"
C2_Witness ==
    /\ Analyzed
    /\ st.user_query = Q_tool_web
    /\ st.query_type = "tool"
    /\ st.tool_name = T_web
    /\ st.tool_input = <<"x">>

----------------------------------------------------------------------------

GenerateReturned == op = "generate" /\ g.pc = "returned"

IsPrimaryCall(e) == e.model = "primary"

IsFallbackCall(e) == e.model = "fallback"

PrimaryCalls == SelectSeq(g.log, IsPrimaryCall)

FallbackCalls == SelectSeq(g.log, IsFallbackCall)

\* text with no leading or trailing whitespace and at least one character
NonBlankStripped(t) == t # None /\ t # <<>> /\ Strip(t) = t

\* C3: generate never raises to its caller; what it returns is either
\* non-empty model text or one of the fixed messages (not configured,
\* too many requests, timeout, generic failure).
C3_TextOrFixedMessage ==
    op = "generate" =>
        /\ g.pc \in {"idle", "primary", "backoff", "fallback", "returned"}
        /\ g.pc # "returned" => ENABLED NextGenerate
        /\ g.pc = "returned" =>
             \/ g.result \in GenerateMessages
             \/ /\ NonBlankStripped(g.result)
                /\ g.log # <<>>
                /\ g.log[Len(g.log)].outcome = "text"
                /\ g.result = Strip(g.log[Len(g.log)].text)

\* every primary attempt was rate limited, the fallback model raised an
\* ordinary error, and generate returned the generic failure message
C3_Witness ==
    /\ GenerateReturned
    /\ Len(PrimaryCalls) = 2
    /\ FallbackCalls # <<>>
    /\ g.last_err.text = X_boom
    /\ g.result = MSG_LLM_FAILED

----------------------------------------------------------------------------

\* C4: the primary model is called at most max_retries times per generate
\* call; a further primary attempt is made only after a rate-limit-class
\* error; a timeout, an exception that is not rate-limit-class, or empty text
\* from the primary ends the loop and control falls through to the fallback
\* stage.
C4_PrimaryRetries ==
    op = "generate" =>
        LET prim == PrimaryCalls IN
        /\ Len(prim) <= settings.gemini_max_retries
        /\ \A i \in 1..(Len(prim) - 1) : prim[i].outcome = "rate_limit"
        /\ \A i \in 1..Len(g.log) :
              g.log[i].model = "primary"
              /\ g.log[i].outcome \in {"timeout", "error", "empty"} =>
                 /\ i = Len(prim)
                 /\ g.pc \in {"fallback", "returned"}
                 /\ g.pc = "returned" /\ provider.fallback =>
                        /\ Len(g.log) = i + 1
                        /\ g.log[i + 1].model = "fallback"
        /\ g.pc = "primary" => Len(prim) = g.attempt

\* three rate-limited primary attempts used up max_retries = 3 and the call
\* went on to the fallback model
C4_Witness ==
    /\ GenerateReturned
    /\ settings.gemini_max_retries = 3
    /\ Len(PrimaryCalls) = 3
    /\ PrimaryCalls[3].outcome = "rate_limit"
    /\ Len(FallbackCalls) = 1

----------------------------------------------------------------------------

PrimarySucceeded == \E i \in 1..Len(g.log) :
                        g.log[i].model = "primary" /\ g.log[i].outcome = "text"

\* C5 (as claimed): when a fallback model is configured, a generate call
\* calls it exactly once if and only if no primary attempt returned non-empty
\* text; it is never called after a primary success and never more than once;
\* when it returns non-empty text that text is the result.
C5_Original ==
    op = "generate" /\ provider.fallback =>
        /\ Len(FallbackCalls) <= 1
        /\ PrimarySucceeded => FallbackCalls = <<>>
        /\ g.pc = "returned" => (Len(FallbackCalls) = 1 <=> ~PrimarySucceeded)
        /\ FallbackCalls # <<>> /\ FallbackCalls[1].outcome = "text" =>
              g.result = Strip(FallbackCalls[1].text)

\* C5 (amended): when the provider is configured (API key present and the
\* primary model built) and a fallback model is configured, a generate call
\* calls the fallback exactly once if and only if no primary attempt returned
\* non-empty text; it is never called after a primary success and never more
\* than once; when it returns non-empty text that text is the result.  A
\* provider that is not configured returns the not-configured message without
\* calling any model.
C5_Amended ==
    op = "generate" /\ provider.fallback =>
        /\ Len(FallbackCalls) <= 1
        /\ PrimarySucceeded => FallbackCalls = <<>>
        /\ g.pc = "returned" /\ is_configured(provider) =>
              (Len(FallbackCalls) = 1 <=> ~PrimarySucceeded)
        /\ g.pc = "returned" /\ ~is_configured(provider) =>
              g.log = <<>> /\ g.result = MSG_NOT_CONFIGURED
        /\ FallbackCalls # <<>> /\ FallbackCalls[1].outcome = "text" =>
              g.result = Strip(FallbackCalls[1].text)

\* the primary returned blank text, the fallback was called once and its text
\* is the result
C5_Witness ==
    /\ GenerateReturned
    /\ provider.fallback
    /\ Len(PrimaryCalls) = 1
    /\ PrimaryCalls[1].outcome = "empty"
    /\ Len(FallbackCalls) = 1
    /\ FallbackCalls[1].text = R_python
    /\ g.result = Strip(R_python)

----------------------------------------------------------------------------

RECURSIVE TwoToThe(_)
TwoToThe(a) == IF a = 0 THEN 1 ELSE 2 * TwoToThe(a - 1)

\* C6: the delay slept after the rate-limit-class error of zero-based attempt
\* a is base_backoff * 2^a, so the delays of one call are strictly increasing.
C6_ExponentialBackoff ==
    op = "generate" =>
        /\ \A i \in 1..Len(g.delays) :
              /\ g.delays[i].attempt = i - 1
              /\ g.delays[i].seconds =
                    settings.gemini_retry_backoff_seconds * TwoToThe(i - 1)
        /\ \A i \in 1..(Len(g.delays) - 1) :
              g.delays[i].seconds < g.delays[i + 1].seconds
        /\ g.pc = "backoff" =>
              g.backoff = settings.gemini_retry_backoff_seconds * TwoToThe(g.attempt)

\* three delays have been slept in one call: 2, 4 and 8 seconds
C6_Witness ==
    /\ op = "generate"
    /\ Len(g.delays) = 3
    /\ g.delays[1].seconds = 2
    /\ g.delays[3].seconds = 8

----------------------------------------------------------------------------

\* the calls of the log that recorded an error: every failed call but a
\* fallback call that returned blank text
RecordsError(e) ==
    e.outcome \in {"timeout", "rate_limit", "error"}
    \/ (e.model = "primary" /\ e.outcome = "empty")

ErrorCalls == SelectSeq(g.log, RecordsError)

AllAttemptsFailed ==
    /\ GenerateReturned
    /\ is_configured(provider)
    /\ \A i \in 1..Len(g.log) : g.log[i].outcome # "text"

\* C7 (as claimed): when all attempts fail, the message returned is selected
\* by the last recorded error: the rate-limit message if that error is
\* rate-limit-class, the timeout message if that error is a timeout, the
\* generic failure message otherwise.
C7_MessageByLastError ==
    AllAttemptsFailed =>
        LET kind == IF ErrorCalls = <<>> THEN "none"
                    ELSE ErrorCalls[Len(ErrorCalls)].outcome
        IN g.result = CASE kind = "rate_limit" -> MSG_RATE_LIMIT
                        [] kind = "timeout"    -> MSG_LLM_TIMEOUT
                        [] OTHER               -> MSG_LLM_FAILED

----------------------------------------------------------------------------

\* C8: when classification plus dispatch exceeds the workflow deadline
\* (retries and backoff in progress included), process_query returns the
\* fixed timed-out message at the deadline and never returns inner text
\* produced afterwards: the clock of a call never passes the deadline, at the
\* deadline the graph is cancelled, and the only value returned then is the
\* timed-out message.
C8_DeadlineReturnsTimeoutMessage ==
    op = "process_query" =>
        /\ now <= Deadline
        /\ DeadlineHit =>
             /\ wf.pc \in {"cancelled", "returned"}
             /\ wf.pc = "returned" => wf.ret = MSG_WORKFLOW_TIMEOUT
        /\ wf.pc = "returned" /\ wf.ret = MSG_WORKFLOW_TIMEOUT => DeadlineHit

\* the deadline fired while generate was asleep in a backoff after its second
\* rate-limited attempt, and process_query returned the timed-out message
C8_Witness ==
    /\ ProcessQueryReturned
    /\ DeadlineHit
    /\ provider.kind = "gemini"
    /\ g.pc = "backoff"
    /\ g.attempt = 1
    /\ wf.ret = MSG_WORKFLOW_TIMEOUT

----------------------------------------------------------------------------

\* C9: every graph execution starts at the classifier, runs it exactly once,
\* then runs exactly one of the four branch nodes, then terminates: the nodes
\* started so far are always a prefix of <<classifier, one branch node>>, and
\* a graph that has ended has started exactly those two.
C9_ClassifierThenOneBranch ==
    op = "process_query" /\ wf.pc # "idle" =>
        /\ Len(wf.visited) \in {1, 2}
        /\ wf.visited[1] = EntryPoint
        /\ Len(wf.visited) = 2 =>
             /\ wf.visited[2] \in BranchNodes
             /\ wf.visited[2] = ConditionalEdges[st.query_type]
        /\ wf.pc = "graph_end" => Len(wf.visited) = 2
        /\ wf.pc # "graph_raised"
        /\ Len(wf.agents) + Len(wf.handlers) <= 1

\* the graph ended after the classifier and the tool branch, which ran a
\* query of the generic tool form that names no known tool
C9_Witness ==
    /\ op = "process_query"
    /\ wf.pc = "graph_end"
    /\ wf.visited = <<EntryPoint, "process_tool">>
    /\ st.tool_name = None

----------------------------------------------------------------------------

\* the run was routed to an agent whose dispatch entry is missing
RoutedToMissingAgent ==
    /\ op = "process_query"
    /\ Len(wf.visited) = 2
    /\ wf.visited[2] \in AgentNodes
    /\ AgentOfNode(wf.visited[2]) \notin registry
    /\ wf.pc \in {"node_done", "graph_end", "returned"}

\* C10 (as claimed): when the dispatch entry for the chosen category is
\* missing, the run sets error = "agent_not_registered", invokes no other
\* agent, makes no provider call for the answer, and the response of the run
\* equals the fixed "agent not registered" message.
C10_MissingAgentResponse ==
    RoutedToMissingAgent =>
        /\ st.error = E_agent_not_registered
        /\ wf.agents = <<>>
        /\ \A i \in 1..Len(wf.llm_calls) : wf.llm_calls[i] = EntryPoint
        /\ st.response = MSG_AGENT_NOT_REGISTERED
        /\ wf.pc = "returned" => wf.ret = MSG_AGENT_NOT_REGISTERED

----------------------------------------------------------------------------

\* the provider call inside the agent of the selected branch raised
AgentCallRaised ==
    /\ wf.agents # <<>>
    /\ wf.node \in AgentNodes
    /\ g.caller = AgentOfNode(wf.node)
    /\ g.pc = "raised"

\* the tool handler of the selected branch raised or outlasted its timeout
ToolHandlerFailed == wf.handlers # <<>> /\ wf.handlers[1] \in {"slow", "boom"}

\* C11 (as claimed): when the agent or the tool handler of the selected branch
\* fails (the provider call inside the agent raises, or the tool handler
\* raises or times out), the failure is recorded in WorkflowState.error and
\* process_query returns the engine's fixed apology string.
C11_BranchFailureRecorded ==
    ProcessQueryReturned /\ ~DeadlineHit /\ (AgentCallRaised \/ ToolHandlerFailed) =>
        /\ Truthy(st.error)
        /\ wf.ret = MSG_WORKFLOW_ERROR

----------------------------------------------------------------------------

\* the agent of the selected branch has returned
AgentReturned ==
    /\ wf.agents # <<>>
    /\ wf.node \in AgentNodes
    /\ wf.pc \in {"node_done", "graph_end", "returned"}

\* C12: when the provider reports is_configured = false, no step of a run
\* invokes provider.generate: classification uses the keyword heuristic (with
\* reason "keyword match" in the trace), and the selected agent returns its
\* category-specific apology string without calling the provider; a
\* manufacturing-keyword query yields category manufacturing and the
\* manufacturing apology.
C12_UnconfiguredNeverCallsProvider ==
    op = "process_query" /\ ~is_configured(provider) =>
        /\ wf.llm_calls = <<>>
        /\ g = GenIdle
        /\ Analyzed /\ st.query_type # "tool" =>
             /\ st.query_type = CategoryOfKeywords(st.user_query)
             /\ st.debug =>
                  /\ st.decision_trace # <<>>
                  /\ st.decision_trace[1].type = "agent_selected"
                  /\ st.decision_trace[1].reason = REASON_KEYWORD
        /\ Analyzed /\ st.user_query = Q_kaizen => st.query_type = "manufacturing"
        /\ AgentReturned =>
             /\ wf.agents = <<st.query_type>>
             /\ st.response = AgentApology(st.query_type, st.user_query)
             /\ st.query_type = "manufacturing" =>
                  st.response =
                    <<"<manufacturing_advisor.py:50 no LLM provider: no manufacturing advice>">>
             /\ wf.pc = "returned" => wf.ret = Strip(st.response)

\* an unconfigured provider, a manufacturing-keyword query with debug on: the
\* run returned the manufacturing apology
C12_Witness ==
    /\ ProcessQueryReturned
    /\ ~is_configured(provider)
    /\ st.user_query = Q_kaizen
    /\ st.debug
    /\ st.query_type = "manufacturing"
    /\ wf.agents = <<"manufacturing">>
    /\ wf.ret = <<"<manufacturing_advisor.py:50 no LLM provider: no manufacturing advice>">>

----------------------------------------------------------------------------

ToolCallReturned == op = "tool" /\ tool_call.pc = "returned"

\* the ToolResult of the direct call
ToolResultOf == tool_call.result[1]

\* the lower-cased name the call was made with; "" for None
ToolNameOf == IF tool_call.tool = None THEN <<>> ELSE Lower(tool_call.tool)

E_unknown_tool == <<"u","n","k","n","o","w","n","_","t","o","o","l">>

E_unsupported_tool == <<"u","n","s","u","p","p","o","r","t","e","d","_","t","o","o","l">>

\* C13: async_execute_tool with a null or empty tool name returns
\* error = "unknown_tool" with the fixed guidance text as output, and with a
\* non-empty name that is not in the handler registry returns
\* error = "unsupported_tool"; in both cases no registered handler is invoked
\* and took_ms is populated.
C13_UnknownAndUnsupported ==
    ToolCallReturned =>
        /\ ToolNameOf = <<>> =>
             /\ ToolResultOf.error = E_unknown_tool
             /\ ToolResultOf.output = MSG_UNKNOWN_TOOL
             /\ tool_call.invoked = <<>>
             /\ ToolResultOf.took_ms \in Nat
        /\ ToolNameOf # <<>> /\ ToolNameOf \notin DOMAIN tool_call.runners =>
             /\ ToolResultOf.error = E_unsupported_tool
             /\ tool_call.invoked = <<>>
             /\ ToolResultOf.took_ms \in Nat

\* a call with the name "foo", which TOOL_RUNNERS does not hold, has returned
C13_Witness ==
    /\ ToolCallReturned
    /\ tool_call.tool = <<"f", "o", "o">>
    /\ ToolResultOf.error = E_unsupported_tool
    /\ ToolResultOf.tool = <<"f", "o", "o">>

----------------------------------------------------------------------------

\* the handler registered under the name of the call
RegisteredHandler == tool_call.runners[ToolNameOf]

\* C14: for a registered handler, async_execute_tool returns error = null and
\* output = the handler's return value when the handler finishes within
\* timeout_s; error containing "timeout" and output = "" when the handler runs
\* longer than timeout_s (the handler's later result is discarded); and
\* error = the exception message and output = "" when the handler raises;
\* took_ms is populated in all three cases and the call never raises.
C14_RegisteredHandlerOutcomes ==
    op = "tool" /\ ToolNameOf \in DOMAIN tool_call.runners =>
        /\ tool_call.pc \in {"idle", "awaiting", "returned"}
        /\ tool_call.pc = "awaiting" => ENABLED ToolAwaitDone
        /\ tool_call.pc = "returned" =>
             /\ tool_call.invoked = <<RegisteredHandler>>
             /\ ToolResultOf.took_ms \in Nat
             /\ RegisteredHandler \in {"sql.run", "web.run", "async_ok", "empty"} =>
                  /\ ToolResultOf.error = None
                  /\ ToolResultOf.output = HandlerReturn(RegisteredHandler, tool_call.arg)
             /\ RegisteredHandler = "slow" =>
                  /\ Contains(ToolResultOf.error, <<"t","i","m","e","o","u","t">>)
                  /\ ToolResultOf.output = <<>>
             /\ RegisteredHandler \in RaisingHandlers =>
                  /\ ToolResultOf.error = HandlerError(RegisteredHandler)
                  /\ ToolResultOf.output = <<>>

\* the handler outlasted the timeout, the call returned a timeout error, and
\* the handler then finished with a result nobody read
C14_Witness ==
    /\ ToolCallReturned
    /\ tool_call.invoked = <<"slow">>
    /\ tool_call.late = <<<<"d", "o", "n", "e">>>>
    /\ ToolResultOf.output = <<>>
    /\ ToolResultOf.error # None

----------------------------------------------------------------------------

\* C15 (as claimed): every ToolResult returned by async_execute_tool, for any
\* registered handler and any handler return value, satisfies: either error
\* is null and output is non-empty, or error is non-null; and took_ms is never
\* null.
C15_OutputOrError ==
    ToolCallReturned /\ ToolNameOf \in DOMAIN tool_call.runners =>
        /\ \/ ToolResultOf.error = None /\ ToolResultOf.output # <<>>
           \/ ToolResultOf.error # None
        /\ ToolResultOf.took_ms \in Nat

----------------------------------------------------------------------------

\* the run returned without the overall timeout and without the error field set
RunCompleted == ProcessQueryReturned /\ ~DeadlineHit /\ ~Truthy(st.error)

\* C16 (as claimed): for every run with debug = true that completes,
\* including runs in which the classification provider call raised,
\* decision_trace contains at least one event of type agent_selected or
\* tool_detected.
C16_TraceHasDecision ==
    RunCompleted /\ st.debug =>
        \E i \in 1..Len(st.decision_trace) :
            st.decision_trace[i].type \in {"agent_selected", "tool_detected"}

----------------------------------------------------------------------------

RouteDecided == op = "route" /\ route_call # <<>>

----------------------------------------------------------------------------

\* what the caller of the i-th finished call saw
Failed(o) == o.timed_out \/ Truthy(o.result.error)

\* the summary _build_debug_info makes of that run, when the run was a debug
\* run that ended without error or timeout; None otherwise
OwnSummary(o) ==
    IF o.result.debug /\ ~Failed(o) THEN <<BuildDebugInfo(o.result)>> ELSE NoDebugInfo

\* C17 (as claimed): every call to process_query overwrites the stored debug
\* summary: after any call returns (normally, early on error, or on timeout),
\* get_last_debug_info() returns either the summary built from that run
\* (debug=true, no error) or None, never an earlier run's summary.  Stated
\* for calls that ran with no other call in flight.
C17_SummaryIsOfThisRun ==
    \A i \in 1..Len(observed) :
        ~observed[i].overlapped => observed[i].info = OwnSummary(observed[i])

----------------------------------------------------------------------------

\* what process_query hands back for the state the run ended in
ReturnOf(o) == IF o.timed_out THEN TimeoutValue(o.result) ELSE ReturnValue(o.result)

\* what get_last_debug_info() gives a caller whose call was the only one
\* between its start and its return: the run's own summary, or, for a run
\* that failed, what was stored when the call started
SummaryAlone(o) == IF Failed(o) THEN o.info0 ELSE OwnSummary(o)

\* C18 (as claimed): two process_query calls on one engine whose awaits
\* interleave share no per-request state: for each of them the returned
\* response, and the debug summary read right after it returns, are the same
\* as if the call had run alone.
C18_InterleavedAsAlone ==
    \A i \in 1..Len(observed) :
        observed[i].overlapped =>
            /\ observed[i].ret = ReturnOf(observed[i])
            /\ observed[i].info = SummaryAlone(observed[i])

----------------------------------------------------------------------------

\* the routing fields the classifier of this turn writes for the query of
\* `state`, with no provider configured
RoutingOfThisTurn(state) ==
    LET det == detect_tool_request(state.user_query) IN
    IF Truthy(det[1])
    THEN [query_type |-> "tool", tool_name |-> det[1], tool_input |-> det[2]]
    ELSE IF StartsWith(Lower(Strip(state.user_query)), S_tool)
    THEN [query_type |-> "tool", tool_name |-> None,
          tool_input |-> Strip(SliceFrom(state.user_query, 5))]
    ELSE [query_type |-> CategoryOfKeywords(state.user_query),
          tool_name |-> None, tool_input |-> None]

RoutingOf(state) ==
    [query_type |-> state.query_type, tool_name |-> state.tool_name,
     tool_input |-> state.tool_input]

ClassifierNotYetRun == wf.pc = "node_start" /\ wf.node = EntryPoint

\* C19 (as claimed): in durable mode, for calls with the same correlation id,
\* no value of query_type, tool_name or tool_input written in an earlier turn
\* is present in the state of a later turn: a turn starts with the three
\* fields unset, and ends with exactly what its own classifier wrote (so that
\* the response and the debug summary, which are computed from that state,
\* owe nothing to an earlier turn).
C19_NoRoutingCarriedOver ==
    /\ ClassifierNotYetRun /\ Durable(st) =>
          RoutingOf(st) = [query_type |-> "", tool_name |-> None, tool_input |-> None]
    /\ \A i \in 1..Len(observed) :
          Durable(observed[i].result) =>
              RoutingOf(observed[i].result) = RoutingOfThisTurn(observed[i].result)

----------------------------------------------------------------------------

\* the query starts with tool: and what follows names no sub-prefix
GenericOnly(q) ==
    /\ HasPrefix(q, S_tool)
    /\ \A p \in SubPrefixes : ~GenericForm(q, p.prefix)

\* C21 (as claimed): for every query whose trimmed, case-insensitive form
\* starts with tool: and whose remainder does not start with a known
\* sub-prefix (queries with leading whitespace included), the classifier sets
\* query_type = tool, tool_name = null and tool_input = the text that follows
\* the tool: prefix, and the run answers with the fixed 'tool request not
\* recognized' message without invoking any tool handler.
C21_BareToolPrefix ==
    Analyzed /\ GenericOnly(st.user_query) =>
        /\ st.query_type = "tool"
        /\ st.tool_name = None
        /\ st.tool_input = TextAfter(st.user_query, S_tool)
        /\ wf.handlers = <<>>
        /\ ProcessQueryReturned /\ ~DeadlineHit => wf.ret = MSG_TOOL_NOT_RECOGNIZED

----------------------------------------------------------------------------

StreamYielded == op = "stream" /\ stream.out # <<>>

RECURSIVE Scrubbed(_)
\* no sensitive key at any depth, and no str longer than the limit plus the
\* ellipsis
Scrubbed(v) ==
    IF v.kind = "str" THEN v.len <= TruncateLimit + 3
    ELSE IF v.kind = "dict"
    THEN /\ DOMAIN v.items \cap SensitiveKeys = {}
         /\ \A k \in DOMAIN v.items : Scrubbed(v.items[k])
    ELSE TRUE

\* C22 (as claimed): every event emitted by stream_events has a payload from
\* which the fields considered sensitive (state, input, inputs, context,
\* config) have been removed and in which no string field is longer than 500
\* characters plus the ellipsis marker, for every event produced by the
\* underlying execution engine.
C22_PayloadScrubbed ==
    StreamYielded => Scrubbed(DictValue(stream.out[1].payload))

----------------------------------------------------------------------------

\* the fixed texts process_query and the agents hand to the user
FixedUserMessages ==
    GenerateMessages \cup
    { AGENT_ERROR_CONTENT, PythonAgentErrorContent, MSG_AGENT_NOT_REGISTERED,
      MSG_TOOL_NOT_RECOGNIZED, MSG_WORKFLOW_TIMEOUT, MSG_WORKFLOW_ERROR,
      MSG_EMPTY_RESPONSE, MSG_SYSTEM_ERROR }

\* C23 (as claimed): the text returned by process_query never contains raw
\* exception text: when the provider call of the agent raises, or the tool
\* handler raises or times out, the response is one of the fixed user-facing
\* messages and the exception's message string does not appear in it.
C23_NoExceptionText ==
    ProcessQueryReturned /\ (AgentCallRaised \/ ToolHandlerFailed) =>
        /\ wf.ret \in FixedUserMessages
        /\ ~Contains(wf.ret, X_boom)

----------------------------------------------------------------------------

\* the provider call made by the classifier raised
ClassificationRaised ==
    /\ op = "process_query"
    /\ wf.llm_calls # <<>> /\ wf.llm_calls[1] = EntryPoint
    /\ wf.llm_results # <<>> /\ wf.llm_results[1] = "raised"

----------------------------------------------------------------------------

\* the classifier node has returned
ClassifierRan ==
    /\ op = "process_query"
    /\ \/ wf.node \in BranchNodes
       \/ wf.node = EntryPoint /\ wf.pc = "node_done"

\* the classifier node has just returned, having read the provider's reply
\* g.result
ClassifiedByReply ==
    /\ op = "process_query"
    /\ wf.node = EntryPoint /\ wf.pc = "node_done"
    /\ wf.llm_results = <<"returned">>

CategoryNames ==
    { [text |-> <<"m","a","n","u","f","a","c","t","u","r","i","n","g">>, type |-> "manufacturing"],
      [text |-> <<"p","y","t","h","o","n">>, type |-> "python"],
      [text |-> <<"g","e","n","e","r","a","l">>, type |-> "general"] }

\* C25: after the classifier node has run, query_type is always one of
\* manufacturing, python, general, tool, for every query and every provider
\* reply: a reply that after trimming and lower-casing is one of the three
\* category names gives that category, and any other reply (the provider's
\* own fixed failure messages included) is coerced to general.
C25_TypeIsOneOfFour ==
    /\ ClassifierRan => st.query_type \in {"manufacturing", "python", "general", "tool"}
    /\ ClassifiedByReply =>
          LET q == Lower(Strip(g.result)) IN
          /\ \A c \in CategoryNames : q = c.text => st.query_type = c.type
          /\ (\A c \in CategoryNames : q # c.text) => st.query_type = "general"
          /\ g.result \in GenerateMessages => st.query_type = "general"

C25_Witness ==
    /\ ClassifiedByReply
    /\ g.result = MSG_LLM_FAILED
    /\ st.query_type = "general"

----------------------------------------------------------------------------

\* the classifier node has just returned a category it read from keywords:
\* it made no provider call and the query has no tool prefix
KeywordPath ==
    /\ op = "process_query"
    /\ wf.node = EntryPoint /\ wf.pc = "node_done"
    /\ wf.llm_calls = <<>>
    /\ ~HasPrefix(st.user_query, S_tool)
    /\ \A c \in ClaimPrefixes : ~HasPrefix(st.user_query, c.prefix)

HasWordOf(q, words) == \E w \in words : Contains(Lower(q), w)

\* C26: the keyword fallback is used only when the provider is not
\* configured; it yields manufacturing when the lower-cased query contains
\* any manufacturing keyword (even if it also contains a programming keyword),
\* python when it contains a programming keyword and no manufacturing keyword,
\* and general otherwise; it never yields tool.
C26_KeywordFallback ==
    /\ KeywordPath =>
          /\ ~is_configured(provider)
          /\ st.query_type =
                IF HasWordOf(st.user_query, ManufacturingWords) THEN "manufacturing"
                ELSE IF HasWordOf(st.user_query, ProgrammingWords) THEN "python"
                ELSE "general"
    /\ \A i \in 1..Len(st.decision_trace) :
          st.decision_trace[i].reason = REASON_KEYWORD =>
              /\ ~is_configured(provider)
              /\ st.query_type # "tool"
    /\ ClassifierRan /\ ~is_configured(provider) /\ st.query_type = "tool" =>
          \/ HasPrefix(st.user_query, S_tool)
          \/ \E c \in ClaimPrefixes : HasPrefix(st.user_query, c.prefix)

C26_Witness ==
    /\ KeywordPath
    /\ st.user_query = Q_both
    /\ st.query_type = "manufacturing"

----------------------------------------------------------------------------

\* the tool branch has run for a query with a recognized tool prefix
ToolBranchRan ==
    /\ op = "process_query"
    /\ wf.node = "process_tool"
    /\ wf.pc \in {"node_done", "graph_end", "returned"}
    /\ ~DeadlineHit
    /\ Truthy(st.tool_name)

ToolTag(name) == <<"[tool:">> \o name \o <<"]">>

\* C27 (as claimed): for every query with a recognized tool prefix (one
\* whose argument after the prefix is empty included), the tool branch invokes
\* the resolved tool handler exactly once, with an argument equal to the
\* classified tool_input, and a successful run's response starts with
\* "[tool:<name>]" and contains the handler's output.
C27_HandlerCalledWithToolInput ==
    ToolBranchRan =>
        /\ Len(wf.handlers) = 1
        /\ wf.tool_args = <<st.tool_input>>
        /\ wf.handlers[1] \in {"sql.run", "web.run"} =>
              /\ StartsWith(st.response, ToolTag(st.tool_name))
              /\ Contains(st.response, HandlerReturn(wf.handlers[1], wf.tool_args[1]))

----------------------------------------------------------------------------

\* a run that returned without the deadline firing, whose classifier got a
\* reply from the provider and read a category from it
ClassifiedByProvider ==
    /\ ProcessQueryReturned /\ ~DeadlineHit
    /\ wf.llm_calls # <<>> /\ wf.llm_calls[1] = EntryPoint
    /\ wf.llm_results # <<>> /\ wf.llm_results[1] = "returned"
    /\ st.query_type \in AgentNames

ToolRunReturned == ProcessQueryReturned /\ st.query_type = "tool"

\* C28 (as claimed): a run whose query is classified as tool (recognized
\* prefix or bare tool:) makes no call to provider.generate, whether or not
\* the provider is configured; a run classified by the provider into
\* manufacturing, python or general makes exactly two calls: one for
\* classification and one in the agent.
C28_Original ==
    /\ ToolRunReturned => wf.llm_calls = <<>>
    /\ ClassifiedByProvider => wf.llm_calls = <<EntryPoint, st.query_type>>

\* C28 (amended): a run classified as tool makes no call to
\* provider.generate, whether or not the provider is configured; a run
\* classified by the provider into manufacturing, python or general makes
\* exactly two calls, one for classification and one in the agent, when the
\* agent of that category is registered, and only the classification call
\* when it is not.
C28_Amended ==
    /\ ToolRunReturned => wf.llm_calls = <<>>
    /\ ClassifiedByProvider =>
          wf.llm_calls = IF st.query_type \in registry
                         THEN <<EntryPoint, st.query_type>>
                         ELSE <<EntryPoint>>

\* the provider names python, whose agent is not registered: one call
C28_Witness ==
    /\ ClassifiedByProvider
    /\ st.query_type = "python"
    /\ AgentMissing("python")
    /\ wf.llm_calls = <<EntryPoint>>

----------------------------------------------------------------------------

DebugInfoBuilt == op = "build_debug_info" /\ debug_call # <<>>

\* C29: in every debug summary built by _build_debug_info, selected_agent is
\* the agent name mapped from query_type when query_type is manufacturing,
\* python or general and null otherwise, selected_tool equals tool_name when
\* query_type = tool and null otherwise, so the two are never both non-null;
\* the summary's decision_trace holds the events of the state's trace in the
\* same order.
C29_SummaryFields ==
    DebugInfoBuilt =>
        LET s == debug_call[1].state
            d == debug_call[1].info
        IN
        /\ d.selected_agent =
              IF s.query_type = "manufacturing" THEN <<"manufacturing_advisor">>
              ELSE IF s.query_type = "python" THEN <<"python_mentor">>
              ELSE IF s.query_type = "general" THEN <<"general_responder">>
              ELSE None
        /\ d.selected_tool = IF s.query_type = "tool" THEN s.tool_name ELSE None
        /\ d.selected_agent = None \/ d.selected_tool = None
        /\ d.decision_trace = s.decision_trace

\* a state that still names a tool while its query_type names an agent
C29_Witness ==
    /\ DebugInfoBuilt
    /\ debug_call[1].state.query_type = "general"
    /\ debug_call[1].state.tool_name = T_sql
    /\ debug_call[1].info.selected_agent = <<"general_responder">>
    /\ debug_call[1].info.selected_tool = None
    /\ debug_call[1].info.decision_trace # <<>>

----------------------------------------------------------------------------

\* the event the reason is read from: the last one of a relevant type
IsLatestRelevant(trace, k) ==
    /\ k \in 1..Len(trace)
    /\ trace[k].type \in {"agent_selected", "tool_detected", "tool_invoked"}
    /\ \A j \in (k + 1)..Len(trace) :
          trace[j].type \notin {"agent_selected", "tool_detected", "tool_invoked"}

\* C30: the reason shown in display_header is taken from the most recent
\* trace event whose type is agent_selected, tool_detected or tool_invoked: it
\* is that event's reason, or the fixed 'tool execution' text when that event
\* is a tool_invoked event without a reason, or the placeholder when the trace
\* has no such event; earlier events are not consulted.  (The header renders
\* a reason that is null or empty as the placeholder.)
C30_ReasonOfLatestEvent ==
    DebugInfoBuilt =>
        LET s == debug_call[1].state
            d == debug_call[1].info
            trace == s.decision_trace
            shown(reason) ==
                d.display_header = DisplayHeader(d.selected_agent, d.selected_tool, reason)
        IN
        /\ (\A k \in 1..Len(trace) : ~IsLatestRelevant(trace, k)) => shown(<<"U+2014">>)
        /\ \A k \in 1..Len(trace) :
              IsLatestRelevant(trace, k) =>
                  IF trace[k].type = "tool_invoked" /\ ~Truthy(trace[k].reason)
                  THEN shown(REASON_TOOL_RUN)
                  ELSE shown(trace[k].reason)

\* a tool_invoked event without a reason is followed by an event of another
\* type that has one: the reason shown is the fixed text
C30_Witness ==
    /\ DebugInfoBuilt
    /\ Len(debug_call[1].state.decision_trace) >= 2
    /\ debug_call[1].state.decision_trace[1].type = "tool_invoked"
    /\ ~Truthy(debug_call[1].state.decision_trace[1].reason)
    /\ debug_call[1].state.decision_trace[2].type = "other"
    /\ Truthy(debug_call[1].state.decision_trace[2].reason)
    /\ debug_call[1].info.display_header =
          DisplayHeader(debug_call[1].info.selected_agent,
                        debug_call[1].info.selected_tool, REASON_TOOL_RUN)

----------------------------------------------------------------------------

\* C31: the tool_input field of every tool_invoked trace event is at most
\* 120 characters long, whatever the length of the tool argument.
C31_TracedToolInputAtMostLimit ==
    \A i \in 1..Len(st.decision_trace) :
        st.decision_trace[i].type = "tool_invoked"
            => Len(st.decision_trace[i].tool_input) <= ToolInputLimit

\* the part of C31 that holds: the traced input is never longer than the
\* limit plus the three dots of the ellipsis, and an argument within the
\* limit is traced whole
C31_TracedToolInputAtMostLimitPlusEllipsis ==
    \A i \in 1..Len(st.decision_trace) :
        st.decision_trace[i].type = "tool_invoked"
            => /\ Len(st.decision_trace[i].tool_input) <= ToolInputLimit + 3
               /\ (wf.tool_args # <<>> /\ Len(wf.tool_args[1]) <= ToolInputLimit)
                      => st.decision_trace[i].tool_input = wf.tool_args[1]

----------------------------------------------------------------------------

\* earlier is an initial part of later
IsPrefixOf(earlier, later) ==
    /\ Len(earlier) <= Len(later)
    /\ SubSeq(later, 1, Len(earlier)) = earlier

\* a step taken by a run of process_query that has started
RunStep == op = "process_query" /\ wf.pc # "idle"

\* C32: during one run decision_trace is append-only (every step of the run
\* keeps the events already recorded, in order, at the front of the trace),
\* and with debug = false the trace stays empty for the whole run and the
\* run stores no debug summary.
C32_TraceAppendOnly ==
    [][ /\ RunStep => IsPrefixOf(st.decision_trace, st'.decision_trace)
        /\ (op = "process_query" /\ ~st'.debug)
              => /\ st'.decision_trace = <<>>
                 /\ last_debug_info' = last_debug_info \/ last_debug_info' = NoDebugInfo
      ]_vars

\* a debug run that has appended two events and returned
C32_Witness ==
    /\ op = "process_query"
    /\ wf.pc = "returned"
    /\ st.debug
    /\ Len(st.decision_trace) >= 2

----------------------------------------------------------------------------

\* the fields a branch node only reads
RoutingAndInputs(state) ==
    <<state.query_type, state.tool_name, state.tool_input,
      state.user_query, state.conversation_history, state.file_context>>

\* the classifier node has returned
ClassifierReturned(w) ==
    \/ w.node # EntryPoint
    \/ w.node = EntryPoint /\ w.pc = "node_done"

\* C33: within one run query_type is written only by the classifier node and
\* exactly once (it goes from unset to a value in a classifier step and is
\* set when the classifier has returned); every branch node leaves
\* query_type, tool_name, tool_input, user_query, conversation_history and
\* file_context unchanged; tool_name and tool_input are set only in runs
\* where query_type = tool.
C33_RoutingWrittenByClassifierOnly ==
    [][ RunStep =>
          /\ st'.query_type # st.query_type
                => /\ wf.node = EntryPoint
                   /\ st.query_type = ""
                   /\ st'.query_type \in {c.type : c \in CategoryNames} \cup {"tool"}
          /\ ClassifierReturned(wf') => st'.query_type # ""
          /\ wf.node # EntryPoint => RoutingAndInputs(st') = RoutingAndInputs(st)
          /\ (st'.tool_name # st.tool_name \/ st'.tool_input # st.tool_input)
                => wf.node = EntryPoint /\ st'.query_type = "tool"
          /\ (st'.tool_name # None \/ st'.tool_input # None)
                => st'.query_type = "tool"
      ]_vars

\* a run classified by the provider as python whose agent has answered, and
\* whose routing fields and inputs are still what the classifier left
C33_Witness ==
    /\ op = "process_query"
    /\ wf.pc = "returned"
    /\ wf.visited = <<EntryPoint, "process_python">>
    /\ wf.llm_results = <<"returned", "returned">>
    /\ st.query_type = "python"
    /\ st.tool_name = None
    /\ st.messages # <<>>

----------------------------------------------------------------------------

\* the two entries a branch node appends for the state it returns
TurnPair(state) ==
    <<[role |-> "user", content |-> state.user_query],
      [role |-> "assistant", content |-> state.response]>>

\* a step in which a branch node returns
BranchNodeReturns ==
    /\ op \in WorkflowOps
    /\ wf.node \in BranchNodes
    /\ wf.pc \in {"node_start", "await_llm"}
    /\ wf'.pc = "node_done"

\* later is earlier followed by exactly the pair
EndsWithPair(later, pair) ==
    /\ Len(later) >= 2
    /\ SubSeq(later, Len(later) - 1, Len(later)) = pair

\* C34: a branch node that completes appends exactly two entries to the
\* message log, the user entry with the query and then the assistant entry
\* with the state's response; in durable mode, over the turns of one
\* correlation id, the persisted log only grows, keeps its earlier entries
\* unchanged and in order, and after a turn whose branch node completed ends
\* with that turn's user/assistant pair.
C34_MessageLogAppendOnly ==
    [][ /\ BranchNodeReturns => st'.messages = st.messages \o TurnPair(st')
        /\ checkpoint # <<>>
              => /\ checkpoint' # <<>>
                 /\ IsPrefixOf(checkpoint[1].messages, checkpoint'[1].messages)
        /\ (wf'.pc = "graph_end" /\ Durable(st'))
              => /\ checkpoint' # <<>>
                 /\ EndsWithPair(checkpoint'[1].messages, TurnPair(st'))
      ]_vars

\* a second durable turn has completed: the persisted log holds the first
\* turn's pair followed by the second turn's pair
C34_Witness ==
    /\ op = "turns"
    /\ Len(observed) = 1
    /\ Durable(observed[1].result)
    /\ Len(observed[1].result.messages) = 2
    /\ wf.pc = "graph_end"
    /\ Durable(st)
    /\ checkpoint # <<>>
    /\ checkpoint[1].messages = TurnPair(observed[1].result) \o TurnPair(st)
    /\ st.user_query # observed[1].result.user_query

----------------------------------------------------------------------------

\* C35: in GeminiProvider.generate every backoff sleep is followed by another
\* attempt against the primary model; no sleep is performed after the last
\* allowed primary attempt (index max_retries - 1) before control moves to
\* the fallback model.
C35_BackoffOnlyBeforeRetry ==
    [][ (g.pc = "backoff" /\ g'.pc # "backoff") => g'.pc = "primary" ]_vars

\* the part of C35 that holds: a sleep that is not the one after the last
\* allowed attempt is followed by the next primary attempt
C35_BackoffThenNextAttempt ==
    [][ (g.pc = "backoff" /\ g'.pc # "backoff"
           /\ g.attempt + 1 < settings.gemini_max_retries)
          => g'.pc = "primary" /\ g'.attempt = g.attempt + 1 ]_vars

----------------------------------------------------------------------------

\* C36: provided each model call ends, every call of GeminiProvider.generate
\* eventually returns, after at most max_retries calls to the primary model
\* and at most one call to the fallback model; with max_retries = 0 the
\* primary model is never called.
C36_GenerateTerminates ==
    /\ [](op = "generate" =>
            /\ Len(PrimaryCalls) <= settings.gemini_max_retries
            /\ Len(FallbackCalls) <= 1
            /\ settings.gemini_max_retries = 0 => PrimaryCalls = <<>>)
    /\ (op = "generate" ~> g.pc = "returned")

\* with max_retries = 0 a call went straight to the fallback model and
\* returned its text
C36_Witness ==
    /\ op = "generate"
    /\ settings.gemini_max_retries = 0
    /\ g.pc = "returned"
    /\ g.log # <<>>
    /\ PrimaryCalls = <<>>
    /\ Len(FallbackCalls) = 1
    /\ g.result = FallbackCalls[1].text

----------------------------------------------------------------------------

\* the session holds a history whose last_active is older than clock - h
OlderThan(sessions, sid, h, clock) ==
    /\ sessions[sid] # <<>>
    /\ sessions[sid][1].last_active < clock - h

\* C39: session cleanup with max_age_hours = h removes exactly the sessions
\* whose last_active is older than now - h hours, leaves every other session
\* and its messages unchanged, and returns the number of sessions removed.
C39_CleanupRemovesExactlyOld ==
    [][ hist'.last.kind = "cleanup" =>
          LET h == hist'.last.max_age_hours
              old == { sid \in SessionIds : OlderThan(hist.sessions, sid, h, hist.clock) }
          IN /\ \A sid \in SessionIds :
                   hist'.sessions[sid] = IF sid \in old THEN <<>> ELSE hist.sessions[sid]
             /\ hist'.ret = <<Cardinality(old)>>
      ]_vars

\* a cleanup removed one session and kept another one whose last_active is
\* exactly at the cutoff, with its messages
C39_Witness ==
    /\ op = "history"
    /\ hist.last.kind = "cleanup"
    /\ hist.ret = <<1>>
    /\ \E sid \in SessionIds :
          /\ hist.sessions[sid] # <<>>
          /\ hist.sessions[sid][1].messages # <<>>
          /\ hist.sessions[sid][1].last_active = hist.clock - hist.last.max_age_hours
    /\ \E sid \in SessionIds : hist.sessions[sid] = <<>>

----------------------------------------------------------------------------

\* the messages a store holds for a session, none if it has no such session
MessagesOf(sessions, sid) ==
    IF sessions[sid] = <<>> THEN <<>> ELSE sessions[sid][1].messages

\* C40: adding a message to the history of a session creates the session when
\* it does not exist, appends the message after all messages added earlier to
\* that session, and changes no other session; the history of a session lists
\* its messages in the order they were added (ids are given in that order).
C40_AddAppendsInOrder ==
    [][ hist'.last.kind = "add" =>
          LET sid == hist'.last.session_id
              after == MessagesOf(hist'.sessions, sid)
          IN /\ hist'.sessions[sid] # <<>>
             /\ Len(after) = Len(MessagesOf(hist.sessions, sid)) + 1
             /\ SubSeq(after, 1, Len(after) - 1) = MessagesOf(hist.sessions, sid)
             /\ after[Len(after)].id = hist'.last.id
             /\ after[Len(after)].session_id = sid
             /\ \A other \in SessionIds \ {sid} :
                   hist'.sessions[other] = hist.sessions[other]
             /\ \A s \in SessionIds :
                   LET ms == MessagesOf(hist'.sessions, s) IN
                   \A i, j \in 1..Len(ms) : i < j => ms[i].id < ms[j].id
      ]_vars

\* a second message was added to a session that already held one, while the
\* other session does not exist
C40_Witness ==
    /\ op = "history"
    /\ hist.last.kind = "add"
    /\ Len(MessagesOf(hist.sessions, hist.last.session_id)) = 2
    /\ \E other \in SessionIds : hist.sessions[other] = <<>>

----------------------------------------------------------------------------

\* C38: stream_events yields a finite sequence and never raises to its
\* consumer: when the underlying execution raises, the sequence ends after
\* the events already emitted (the generator is done, nothing is yielded
\* afterwards and no exception leaves it); every emitted item has the fields
\* event_type, ts and payload.
C38_StreamEndsQuietly ==
    /\ [](op = "stream" =>
            /\ ~stream.raised
            /\ \A i \in 1..Len(stream.out) :
                  DOMAIN stream.out[i] = {"event_type", "ts", "payload"})
    /\ [][ stream.pc = "done" => stream' = stream ]_vars
    /\ (op = "stream" ~> stream.pc = "done")

\* the run behind the stream raised after an event had been emitted, and the
\* generator finished
C38_Witness ==
    /\ op = "stream"
    /\ stream.pc = "done"
    /\ stream.ended = "raised"
    /\ stream.n >= 1
    /\ stream.out # <<>>
    /\ ~stream.raised

----------------------------------------------------------------------------

\* the stream task created for client message k
TaskOf(k) == { i \in 1..Len(ws.tasks) : ws.tasks[i].msg = k }

\* C37 (as claimed): with debug streaming enabled, the streamed and the
\* normal execution of one received message are two separate runs over
\* separate WorkflowStates, the assistant message sent to the client comes
\* only from the normal run, and the next client message is not received
\* until the stream task of the current message has finished.
C37_StreamAndNormalRun ==
    (op = "websocket" /\ ws.streaming) =>
        /\ \A i, j \in 1..Len(ws.runs) :
              (i # j /\ ws.runs[i].msg = ws.runs[j].msg)
                 => ws.runs[i].by # ws.runs[j].by
        /\ \A i \in 1..Len(ws.sent) :
              ws.sent[i].type = "message" => ws.sent[i].from # "stream"
        /\ \A i \in 1..Len(ws.tasks) :
              ws.tasks[i].msg < ws.n => ws.tasks[i].pc = "done"

\* the part of C37 that holds: the two runs of a message are separate, the
\* assistant message never comes from the stream, and after a message whose
\* answer was sent the next message is received only when its stream task
\* has finished
C37_NextReceiveAfterStreamUnlessError ==
    (op = "websocket" /\ ws.streaming) =>
        /\ \A i, j \in 1..Len(ws.runs) :
              (i # j /\ ws.runs[i].msg = ws.runs[j].msg)
                 => ws.runs[i].by # ws.runs[j].by
        /\ \A i \in 1..Len(ws.sent) :
              ws.sent[i].type = "message" => ws.sent[i].from # "stream"
        /\ \A i \in 1..Len(ws.tasks) :
              (/\ ws.tasks[i].msg < ws.n
               /\ \E j \in 1..Len(ws.sent) :
                     ws.sent[j].type = "message" /\ ws.sent[j].msg = ws.tasks[i].msg)
                 => ws.tasks[i].pc = "done"

\* the answer to a message has been sent while the stream task of that
\* message is still running: sending does not wait for the stream
C37_SentWhileStreaming ==
    /\ op = "websocket"
    /\ ws.pc = "await_stream"
    /\ \E i \in TaskOf(ws.n) : ws.tasks[i].pc = "running"
    /\ \E j \in 1..Len(ws.sent) : ws.sent[j].type = "message" /\ ws.sent[j].msg = ws.n

====
